---- MODULE Spec2Model ----
(***************************************************************************)
(* Verification model of the comprakt MiniJava compiler:                   *)
(*   - lowering of a Firm graph to the LIR block graph (lowering/lir.rs,   *)
(*     lowering/gen_instr.rs): slot allocation, edge transitions, copy     *)
(*     placement;                                                          *)
(*   - amd64 function prologue/epilogue and calls (lowering/amd64);        *)
(*   - method body type checking (method_body_typechecker.rs);             *)
(*   - Diagnostics, PositionIterator, AsciiFile, PositionedChars, the      *)
(*     command line driver and the lextest writer;                         *)
(*   - unreachable code elimination, build_lsa, iter_blocks and the        *)
(*     arithmetic instructions of gen_instr.rs.                            *)
(***************************************************************************)
EXTENDS Integers, Sequences, FiniteSets, TLC

VARIABLES
    g,          \* the Firm graph being lowered (BlockGraph.firm)
    pc,         \* position of the lowering driver
    walk,       \* walk_blocks: the DFS path over cfg_preds
    visitedB,   \* walk_blocks: blocks already visited
    order,      \* the order in which walk_blocks visits the blocks
    succs,      \* BasicBlock.succs, per block (sequence of edges)
    cur,        \* construct_flows: index into order of the block being visited
    nodesLeft,  \* construct_flows: out_nodes of the block not yet handled
    valsLeft,   \* construct_flows: values still to pass to new_terminating_slot
    stack,      \* call stack of new_slot / new_multislot_from_phi / add_incoming_value_flow
    ret,        \* the MultiSlot returned by the last new_slot call
    regs,       \* BasicBlock.regs, per block
    trans,      \* ControlFlowTransfer.register_transitions, per edge
    panic,      \* "" or the assertion that aborted the lowering
    visit_list, \* BasicBlockIter.visit_list
    visitedG,   \* BasicBlockIter.visited
    copy_in,    \* Code.copy_in, per block
    copy_out,   \* Code.copy_out, per block
    \* amd64 function and call frames (lowering/amd64/function.rs)
    cconv,      \* CallingConv of the function
    args,       \* the arguments of the lir Call instruction
    dst,        \* the destination slot of the Call, or NoDst
    num_regs_required, \* the register pressure passed to save_callee_save_regs
    call,       \* the FunctionCall under construction
    save_regs,  \* Function.save_regs
    restore_regs, \* Function.restore_regs
    apc,        \* position of the amd64 driver
    prog,       \* the instruction sequence being executed
    ip,         \* index of the next instruction of prog
    mreg,       \* machine registers
    mstk,       \* machine stack, top last
    \* method body type checker
    tc_version, \* "old": method_body_typechecker.rs, "new": type_checking/
    return_ty,  \* current_method.return_ty
    is_static,  \* current_method.is_static
    local_scope, \* names defined as local variable or parameter
    fields,     \* names of the fields of the current class
    classes,    \* names the type system resolves to a class
    diags,      \* diagnostics reported so far, in order
    tc_n,       \* number of statements checked
    last,       \* the statement checked last, where its diagnostics start, its typing
    scopes,     \* local_scope as a stack of scopes, the root scope first
    ctl,        \* the open calls of check_type_block and of the If and While arms
    hist,       \* the calls of enter_scope, leave_scope and define made so far
    \* Diagnostics
    message_count, \* HashMap<MessageLevel, usize>: a function on the keys present
    writer,     \* the lines written to the writer, in order
    calls,      \* the calls made on the Diagnostics so far
    returned,   \* what the last call returned
    \* PositionIterator
    iter_version, \* "old": asciifile/src/iter.rs, "new": compiler-lib/src/asciifile/iter.rs
    build,      \* "debug": debug assertions and overflow checks are on, "release": off
    text,       \* the characters of the file
    position_to_emit, \* index of the next character to emit, 0 for None
    peeked,     \* the last call on the iterator: its arguments and what it returned
    \* AsciiFile and the command line driver
    mapping,    \* the bytes of the input file
    ascii_file, \* the Result of AsciiFile::new
    cmd,        \* the subcommand
    cli_pc,     \* where the driver is
    lexed,      \* number of lexemes the lexer has produced
    parser_tokens, \* the lexemes handed to the parser, by index
    stdout,     \* the lines written to stdout
    trace,      \* errors, statistics, start of semantic analysis, exit, in order
    exit_code,  \* exit code of the process, -1 while it runs
    \* PositionedChars (src/asciifile.rs)
    file,       \* the characters of the AsciiFile
    chars,      \* the PositionedChars: curpos, ascii_file (the characters not yet pulled), peeked
    yielded,    \* the items next() has returned, in order
    pcall,      \* the last call on the PositionedChars: its arguments, what it returned
    \* the lextest writer (src/main.rs)
    tokens,     \* the TokenKinds handed to the lextest writer, in order
    written,    \* number of tokens write_token has been called for
    out,        \* the characters written to the output, in order
    eof_written, \* whether write_eof_token has run
    \* BlockGraph::iter_blocks on any block graph (lowering/lir.rs)
    block_succs, \* BasicBlock.succs of every block of a BlockGraph, the head is block 1
    bb_visit_list, \* BasicBlockIter.visit_list
    bb_visited, \* BasicBlockIter.visited
    bb_yielded, \* the blocks the iterator has returned, in order
    bb_exhausted, \* whether next() has returned None
    \* unreachable code elimination (optimization/unreachable_code_elimination.rs)
    graph,      \* UnreachableCodeElimination.graph of the method being optimized, or NoGraph
    graph_before, \* the graph as it was handed to UnreachableCodeElimination::new
    uce_pc,     \* where unreachable_code_elimination::run is
    method_result, \* the OptimizationResult of the last UnreachableCodeElimination::run
    results,    \* OptimizationResultCollector.results
    program_result, \* what unreachable_code_elimination::run returned, or NoResult
    \* Function::build_lsa (lowering/amd64/function.rs)
    postorder_blocks, \* lva.postorder_blocks: the blocks [num, instrs] in postorder
    liveness,   \* lva.liveness: per variable with an entry, the numbers of the blocks it is live in
    lsa_build,  \* "debug": overflow checks are on, "release": off
    lsa,        \* what build_lsa computed: block_last_instr, the intervals, or a panic
    \* GenInstrBlock::gen_value_walk_callback (lowering/gen_instr.rs)
    gen_node,   \* the Firm node gen_value_walk_callback is called for: [kind, ins]
    computed,   \* GenInstrBlock.computed: the slot of every node computed so far
    code_body,  \* GenInstrBlock.code.body: the instructions emitted
    slot_values, \* the value every slot holds when the body runs, "undef" if never written
    param_values, \* the values of the parameters of the method
    gen_pc      \* "visit", "generated" or "executed"

lirVars == <<g, pc, walk, visitedB, order, succs, cur, nodesLeft, valsLeft, stack,
             ret, regs, trans, panic, visit_list, visitedG, copy_in, copy_out>>

amdVars == <<cconv, args, dst, num_regs_required, call, save_regs, restore_regs, apc,
             prog, ip, mreg, mstk>>

tcVars == <<tc_version, return_ty, is_static, local_scope, fields, classes, diags,
            tc_n, last, scopes, ctl, hist>>

diagVars == <<message_count, writer, calls, returned>>

iterVars == <<iter_version, build, text, position_to_emit, peeked>>

cliVars == <<mapping, ascii_file, cmd, cli_pc, lexed, parser_tokens, stdout, trace,
             exit_code>>

pcharVars == <<file, chars, yielded, pcall>>

lexVars == <<tokens, written, out, eof_written>>

bbiterVars == <<block_succs, bb_visit_list, bb_visited, bb_yielded, bb_exhausted>>

uceVars == <<graph, graph_before, uce_pc, method_result, results, program_result>>

lsaVars == <<postorder_blocks, liveness, lsa_build, lsa>>

genVars == <<gen_node, computed, code_body, slot_values, param_values, gen_pc>>

laterVars == <<pcharVars, lexVars, bbiterVars, uceVars, lsaVars, genVars>>

restVars == <<diagVars, iterVars, cliVars, laterVars>>

vars == <<lirVars, amdVars, tcVars, restVars>>

----------------------------------------------------------------------------
(* Generic helpers *)

Range(s) == { s[i] : i \in 1..Len(s) }

Min(a, b) == IF a < b THEN a ELSE b

Last(s) == s[Len(s)]

Front(s) == SubSeq(s, 1, Len(s) - 1)

----------------------------------------------------------------------------
(* Firm graphs.  A node is [kind, block, ins]: ins are its value inputs    *)
(* (mode != M), for a Phi one per cfg_pred of its block.  A memory Phi     *)
(* ("PhiM") has only mode-M inputs, so none is listed.                     *)

Nd(kind, block, ins) == [kind |-> kind, block |-> block, ins |-> ins]

\* int f(int y) { if (y > 3 || y < 0) return y; else return 0 - y; }
\* 1 = start (y > 3), 2 = (y < 0), 3 = return y, 4 = return 0 - y, 5 = end
GraphShortCircuit ==
    [name  |-> "short_circuit",
     start |-> 1, end |-> 5,
     preds |-> << <<>>, <<1>>, <<1, 2>>, <<2>>, <<3, 4>> >>,
     nodes |-> << Nd("Op", 1, <<>>),          \* 1: y
                  Nd("Const", 1, <<>>),       \* 2: 3
                  Nd("Const", 1, <<>>),       \* 3: 0
                  Nd("Op", 1, <<1, 2>>),      \* 4: Cmp y > 3
                  Nd("Op", 2, <<1, 3>>),      \* 5: Cmp y < 0
                  Nd("Op", 3, <<1>>),         \* 6: Return y
                  Nd("Op", 4, <<3, 1>>),      \* 7: Sub 0 - y
                  Nd("Op", 4, <<7>>) >>]      \* 8: Return

\* int f(int p, boolean c) { int x = 0; if (c) x = p; return x; }
\* 1 = start, 2 = then, 3 = join, 4 = end
GraphIfPhi ==
    [name  |-> "if_phi",
     start |-> 1, end |-> 4,
     preds |-> << <<>>, <<1>>, <<2, 1>>, <<3>> >>,
     nodes |-> << Nd("Op", 1, <<>>),          \* 1: p
                  Nd("Const", 1, <<>>),       \* 2: 0
                  Nd("Phi", 3, <<1, 2>>),     \* 3: x = phi(p, 0)
                  Nd("Op", 3, <<3>>) >>]      \* 4: Return x

\* int f(int v, boolean c) { int w = v; if (c) w = 5; return v + w; }
\* 1 = start, 2 = then, 3 = join, 4 = end
GraphPhiAndUse ==
    [name  |-> "phi_and_use",
     start |-> 1, end |-> 4,
     preds |-> << <<>>, <<1>>, <<2, 1>>, <<3>> >>,
     nodes |-> << Nd("Op", 1, <<>>),          \* 1: v
                  Nd("Const", 1, <<>>),       \* 2: 5
                  Nd("Phi", 3, <<2, 1>>),     \* 3: w = phi(5, v)
                  Nd("Op", 3, <<1, 3>>),      \* 4: Add v + w
                  Nd("Op", 3, <<4>>) >>]      \* 5: Return

\* int f(int n) { int i = 0; while (i < n) i = i + 1; return i; }
\* 1 = start, 2 = header, 3 = body, 4 = exit, 5 = end
GraphWhile ==
    [name  |-> "while",
     start |-> 1, end |-> 5,
     preds |-> << <<>>, <<1, 3>>, <<2>>, <<2>>, <<4>> >>,
     nodes |-> << Nd("Op", 1, <<>>),          \* 1: n
                  Nd("Const", 1, <<>>),       \* 2: 0
                  Nd("Const", 1, <<>>),       \* 3: 1
                  Nd("Phi", 2, <<2, 5>>),     \* 4: i = phi(0, i + 1)
                  Nd("Op", 3, <<4, 3>>),      \* 5: Add i + 1
                  Nd("Op", 2, <<4, 1>>),      \* 6: Cmp i < n
                  Nd("Op", 4, <<4>>) >>]      \* 7: Return i

\* void f(int n) { while (n < 3) System.out.println(n); }
\* 1 = start, 2 = header, 3 = body, 4 = exit, 5 = end
GraphWhileCall ==
    [name  |-> "while_call",
     start |-> 1, end |-> 5,
     preds |-> << <<>>, <<1, 3>>, <<2>>, <<2>>, <<4>> >>,
     nodes |-> << Nd("Op", 1, <<>>),          \* 1: n
                  Nd("Const", 1, <<>>),       \* 2: 3
                  Nd("Address", 1, <<>>),     \* 3: &println
                  Nd("PhiM", 2, <<>>),        \* 4: memory phi
                  Nd("Op", 2, <<1, 2>>),      \* 5: Cmp n < 3
                  Nd("Op", 3, <<3, 1>>) >>]   \* 6: Call println(n)

\* int f(int y, boolean a, boolean b) {
\*   int x = 0; while (a) { x = y; while (b) x = x + 1; } return x; }
\* 1 = start, 2 = outer header, 3 = outer body, 4 = inner header,
\* 5 = inner body, 6 = inner exit, 7 = outer exit, 8 = end
GraphNestedWhile ==
    [name  |-> "nested_while",
     start |-> 1, end |-> 8,
     preds |-> << <<>>, <<1, 6>>, <<2>>, <<3, 5>>, <<4>>, <<4>>, <<2>>, <<7>> >>,
     nodes |-> << Nd("Op", 1, <<>>),          \* 1: y
                  Nd("Const", 1, <<>>),       \* 2: 0
                  Nd("Const", 1, <<>>),       \* 3: 1
                  Nd("Phi", 2, <<2, 5>>),     \* 4: x1 = phi(0, x2)
                  Nd("Phi", 4, <<1, 6>>),     \* 5: x2 = phi(y, x2 + 1)
                  Nd("Op", 5, <<5, 3>>),      \* 6: Add x2 + 1
                  Nd("Op", 7, <<4>>) >>]      \* 7: Return x1

\* int f(int n) { int x = 0; while ((x = x + 1) < n) ; return x; }
\* with the empty body merged into the header:
\* 1 = start, 2 = loop block with an edge to itself, 3 = exit, 4 = end
GraphSelfLoop ==
    [name  |-> "self_loop",
     start |-> 1, end |-> 4,
     preds |-> << <<>>, <<1, 2>>, <<2>>, <<3>> >>,
     nodes |-> << Nd("Const", 1, <<>>),       \* 1: 0
                  Nd("Const", 1, <<>>),       \* 2: 1
                  Nd("Op", 1, <<>>),          \* 3: n
                  Nd("Phi", 2, <<1, 5>>),     \* 4: x = phi(0, x + 1)
                  Nd("Op", 2, <<4, 2>>),      \* 5: Add x + 1
                  Nd("Op", 2, <<5, 3>>),      \* 6: Cmp x + 1 < n
                  Nd("Op", 3, <<5>>) >>]      \* 7: Return x + 1

\* int f(int v, boolean c) { if (c) { g(); } else { h(); } return v; }
\* 1 = start, 2 = then, 3 = else, 4 = join, 5 = end
GraphPassThrough ==
    [name  |-> "pass_through",
     start |-> 1, end |-> 5,
     preds |-> << <<>>, <<1>>, <<1>>, <<2, 3>>, <<4>> >>,
     nodes |-> << Nd("Op", 1, <<>>),          \* 1: v
                  Nd("Address", 1, <<>>),     \* 2: &g
                  Nd("Op", 2, <<2>>),         \* 3: Call g()
                  Nd("PhiM", 4, <<>>),        \* 4: memory phi
                  Nd("Op", 4, <<1>>) >>]      \* 5: Return v

\* int f(int y, boolean c) { int x = 0; while (c) x = y; return x; }
\* 1 = start, 2 = header, 3 = body, 4 = exit, 5 = end
GraphWhileAssign ==
    [name  |-> "while_assign",
     start |-> 1, end |-> 5,
     preds |-> << <<>>, <<1, 3>>, <<2>>, <<2>>, <<4>> >>,
     nodes |-> << Nd("Op", 1, <<>>),          \* 1: y
                  Nd("Const", 1, <<>>),       \* 2: 0
                  Nd("Phi", 2, <<2, 1>>),     \* 3: x = phi(0, y)
                  Nd("Op", 4, <<3>>) >>]      \* 4: Return x

Graphs == { GraphShortCircuit, GraphIfPhi, GraphPhiAndUse, GraphWhile, GraphWhileCall,
            GraphNestedWhile, GraphSelfLoop, GraphPassThrough, GraphWhileAssign }

Blocks(G) == 1..Len(G.preds)

Nodes(G) == 1..Len(G.nodes)

is_phi(G, v) == G.nodes[v].kind \in {"Phi", "PhiM"}

is_const(G, v) == G.nodes[v].kind = "Const"

is_address(G, v) == G.nodes[v].kind = "Address"

block_of(G, v) == G.nodes[v].block

\* the nodes placed in block b (Block::out_nodes)
out_nodes(G, b) == { n \in Nodes(G) : G.nodes[n].block = b }

----------------------------------------------------------------------------
(* LIR data: edges, value slots, multislots *)

\* A ControlFlowTransfer: the idx-th cfg_pred of tgt
Edge(G, t, i) == [src |-> G.preds[t][i], tgt |-> t, idx |-> i]

Edges(G) == UNION { { Edge(G, t, i) : i \in 1..Len(G.preds[t]) } : t \in Blocks(G) }

\* BasicBlock.preds: the incoming edges of b, in cfg_preds order
preds_of(G, b) == [i \in 1..Len(G.preds[b]) |-> Edge(G, b, i)]

NoSlot == [num |-> -1, firm |-> 0, alloc |-> 0, orig |-> 0, term |-> 0]

NoMulti == [b |-> 0, num |-> -1, phi |-> 0, slots |-> <<>>]

\* MultiSlot::Single has phi = 0, MultiSlot::Multi carries its phi node
is_multi(ms) == ms.phi # 0

\* MultiSlot::num; slots[0] of a Multi without slots does not exist
num_defined(ms) == is_multi(ms) => ms.slots # <<>>

multislot_num(ms) == ms.slots[1].num

multislot_firm(ms) == IF is_multi(ms) THEN ms.phi ELSE ms.slots[1].firm

\* index of the first element of s satisfying P, 0 if there is none
FirstIdx(s, P(_)) ==
    IF \E i \in 1..Len(s) : P(s[i])
    THEN CHOOSE i \in 1..Len(s) : P(s[i]) /\ \A j \in 1..(i - 1) : ~P(s[j])
    ELSE 0

\* the closure of the find() in new_slot
slot_matches(G, ms, value) ==
    IF is_multi(ms)
    THEN IF is_phi(G, value)
         THEN ms.phi = value
         ELSE \E k \in 1..Len(ms.slots) : ms.slots[k].firm = value
    ELSE ms.slots[1].firm = value

\* originates_here without the Const / Address exemption
originates_here_by_block(G, slot) == slot.alloc = slot.orig

originates_here(G, slot) ==
    \/ is_const(G, slot.firm)
    \/ is_address(G, slot.firm)
    \/ slot.alloc = slot.orig

\* BasicBlock::find_incoming_edge_from
find_incoming_edge_from(G, b, cfg_pred) ==
    LET ps == preds_of(G, b)
        IsFrom(e) == e.src = cfg_pred
    IN  ps[FirstIdx(ps, IsFrom)]

\* a ValueSlot numbered after the push instead of before it
new_value_slot_after_push(G, b, num, value, term) ==
    [num |-> num + 1, firm |-> value, alloc |-> b, orig |-> block_of(G, value), term |-> term]

\* the ValueSlot built by MultiSlotBuilder::add_possible_value
new_value_slot(G, b, num, value, term) ==
    [num |-> num, firm |-> value, alloc |-> b, orig |-> block_of(G, value), term |-> term]

\* MultiSlotBuilder::commit: the new regs of the block, <<>> on unreachable!()
commit_ok(rs, num) == Len(rs) = num \/ Len(rs) = num + 1

commit(rs, b, num, phi, slots) ==
    LET ms == [b |-> b, num |-> num, phi |-> phi, slots |-> slots]
    IN  IF Len(rs) = num THEN Append(rs, ms)
        ELSE [rs EXCEPT ![num + 1] = ms]

\* the assertions on source_slot in add_incoming_value_flow
source_slot_ok(ms, target_slot) ==
    IF is_multi(ms)
    THEN \/ ms.phi = target_slot.firm
         \/ \E k \in 1..Len(ms.slots) : ms.slots[k].firm = target_slot.firm
    ELSE ms.slots[1].firm = target_slot.firm

\* ControlFlowTransfer::must_copy_in_source
must_copy_in_source(G, tr, e, flow_idx) ==
    LET target_slot_num == tr[e][flow_idx][2].num
    IN  \E i \in 1..Len(G.preds[e.tgt]) :
            /\ Edge(G, e.tgt, i) # e
            /\ \E k \in 1..Len(tr[Edge(G, e.tgt, i)]) :
                   tr[Edge(G, e.tgt, i)][k][2].num = target_slot_num

\* ControlFlowTransfer::must_copy_in_target
must_copy_in_target(G, tr, e, flow_idx) ==
    LET source_slot_num == multislot_num(tr[e][flow_idx][1])
    IN  \E succ \in Edges(G) :
            /\ succ.src = e.src
            /\ succ # e
            /\ \E k \in 1..Len(tr[succ]) :
                   multislot_num(tr[succ][k][1]) = source_slot_num

----------------------------------------------------------------------------
(* Call frames of the slot allocation *)

Frame(op, fpc, b, value, term, num, slots, i, e, tslot) ==
    [op |-> op, pc |-> fpc, b |-> b, value |-> value, term |-> term, num |-> num,
     slots |-> slots, i |-> i, e |-> e, tslot |-> tslot]

NoEdge == [src |-> 0, tgt |-> 0, idx |-> 0]

new_slot_frame(b, value, term) ==
    Frame("new_slot", "lookup", b, value, term, -1, <<>>, 0, NoEdge, NoSlot)

flow_frame(e, tslot) ==
    Frame("add_incoming_value_flow", "find", 0, 0, 0, -1, <<>>, 0, e, tslot)

top == Last(stack)

\* A new_slot or new_multislot_from_phi call that is waiting for
\* add_incoming_value_flow holds self.borrow() of its block: the borrow of the
\* `for incoming_edge in &self.borrow().preds` loop, or of the statement
\* self.borrow().find_incoming_edge_from(..).unwrap().add_incoming_value_flow(..)
block_borrowed(st, b) ==
    \E k \in 1..(Len(st) - 1) :
        st[k].op \in {"new_slot", "new_multislot_from_phi"} /\ st[k].b = b

\* An add_incoming_value_flow call that is waiting for new_forwarding_slot
\* holds self.borrow() of its edge
edge_borrowed(st, e) ==
    \E k \in 1..(Len(st) - 1) :
        st[k].op = "add_incoming_value_flow" /\ st[k].e = e

BorrowMutError == "already borrowed: BorrowMutError"

Running == pc = "flows" /\ stack # <<>>

Panic(msg) ==
    /\ pc' = "panic"
    /\ panic' = msg
    /\ UNCHANGED <<g, walk, visitedB, order, succs, cur, nodesLeft, valsLeft, stack,
                   ret, regs, trans, visit_list, visitedG, copy_in, copy_out>>

----------------------------------------------------------------------------
(* BlockGraph::build_skeleton: walk_blocks visits every block reachable    *)
(* from the end block over cfg_preds, a block before its predecessors;     *)
(* the order among the predecessors is the walker's.                       *)

idleLir ==
    /\ walk = <<>> /\ visitedB = {} /\ order = <<>> /\ cur = 0
    /\ nodesLeft = {} /\ valsLeft = <<>> /\ stack = <<>> /\ ret = NoMulti
    /\ panic = "" /\ visit_list = <<>> /\ visitedG = {}

InitLir ==
    /\ g \in Graphs
    /\ pc = "skeleton"
    /\ idleLir
    /\ succs = [b \in Blocks(g) |-> <<>>]
    /\ regs = [b \in Blocks(g) |-> <<>>]
    /\ trans = [e \in Edges(g) |-> <<>>]
    /\ copy_in = [b \in Blocks(g) |-> <<>>]
    /\ copy_out = [b \in Blocks(g) |-> <<>>]

RECURSIVE add_succs(_, _, _, _)
\* the loop over firm_target.cfg_preds() in build_skeleton
add_succs(G, sc, t, i) ==
    IF i > Len(G.preds[t]) THEN sc
    ELSE add_succs(G, [sc EXCEPT ![G.preds[t][i]] = Append(@, Edge(G, t, i))], t, i + 1)

\* walk_blocks, VisitTime::BeforePredecessors
skeleton_visit(b) ==
    /\ pc = "skeleton"
    /\ b \notin visitedB
    /\ \/ walk = <<>> /\ visitedB = {} /\ b = g.end
       \/ walk # <<>> /\ b \in Range(g.preds[Last(walk)])
    /\ visitedB' = visitedB \cup {b}
    /\ walk' = Append(walk, b)
    /\ order' = Append(order, b)
    /\ succs' = add_succs(g, succs, b, 1)
    /\ UNCHANGED <<g, pc, cur, nodesLeft, valsLeft, stack, ret, regs, trans, panic,
                   visit_list, visitedG, copy_in, copy_out>>

\* walk_blocks, VisitTime::AfterPredecessors
skeleton_leave ==
    /\ pc = "skeleton"
    /\ walk # <<>>
    /\ Range(g.preds[Last(walk)]) \subseteq visitedB
    /\ walk' = Front(walk)
    /\ pc' = IF Len(walk) = 1 THEN "flows" ELSE pc
    /\ UNCHANGED <<g, visitedB, order, succs, cur, nodesLeft, valsLeft, stack, ret,
                   regs, trans, panic, visit_list, visitedG, copy_in, copy_out>>

----------------------------------------------------------------------------
(* construct_flows *)

\* the values of a node that construct_flows passes to new_terminating_slot
foreign_values(G, b, n) ==
    IF is_phi(G, n) THEN <<n>>
    ELSE SelectSeq(G.nodes[n].ins, LAMBDA value : block_of(G, value) # b)

\* walk_blocks reaches the next block (or has visited them all)
construct_flows_block ==
    /\ pc = "flows"
    /\ stack = <<>> /\ valsLeft = <<>> /\ nodesLeft = {}
    /\ IF cur < Len(order)
       THEN /\ cur' = cur + 1
            /\ nodesLeft' = out_nodes(g, order[cur + 1])
            /\ pc' = pc
       ELSE /\ pc' = "flows_done"
            /\ UNCHANGED <<cur, nodesLeft>>
    /\ UNCHANGED <<g, walk, visitedB, order, succs, valsLeft, stack, ret, regs, trans,
                   panic, visit_list, visitedG, copy_in, copy_out>>

\* the next node of firm_block.out_nodes(), in the order libfirm yields them
construct_flows_node(n) ==
    /\ pc = "flows"
    /\ stack = <<>> /\ valsLeft = <<>>
    /\ n \in nodesLeft
    /\ nodesLeft' = nodesLeft \ {n}
    /\ valsLeft' = foreign_values(g, order[cur], n)
    /\ UNCHANGED <<g, pc, walk, visitedB, order, succs, cur, stack, ret, regs, trans,
                   panic, visit_list, visitedG, copy_in, copy_out>>

\* local_block.new_terminating_slot(value)
new_terminating_slot ==
    /\ pc = "flows"
    /\ stack = <<>> /\ valsLeft # <<>>
    /\ stack' = <<new_slot_frame(order[cur], Head(valsLeft), order[cur])>>
    /\ valsLeft' = Tail(valsLeft)
    /\ UNCHANGED <<g, pc, walk, visitedB, order, succs, cur, nodesLeft, ret, regs,
                   trans, panic, visit_list, visitedG, copy_in, copy_out>>

lirFrame == <<g, pc, walk, visitedB, order, succs, cur, nodesLeft, valsLeft, panic,
              visit_list, visitedG, copy_in, copy_out>>

\* new_slot: look for a multislot that already holds the value, else allocate
new_slot ==
    /\ Running /\ top.op = "new_slot" /\ top.pc = "lookup"
    /\ LET b == top.b
           value == top.value
           Holds(ms) == slot_matches(g, ms, value)
           found == FirstIdx(regs[b], Holds)
           num == Len(regs[b])
           slot == new_value_slot(g, b, num, value, top.term)
       IN  IF found # 0
           THEN /\ ret' = regs[b][found]
                /\ stack' = Front(stack)
                /\ UNCHANGED <<regs, trans>>
                /\ UNCHANGED lirFrame
           ELSE IF is_phi(g, value) /\ block_of(g, value) = b
           THEN \* new_multislot_from_phi: MultiSlotBuilder::new
                /\ stack' = [stack EXCEPT ![Len(stack)] =
                       [top EXCEPT !.op = "new_multislot_from_phi", !.pc = "preds",
                                   !.num = num, !.i = 1]]
                /\ UNCHANGED <<ret, regs, trans>>
                /\ UNCHANGED lirFrame
           ELSE IF block_borrowed(stack, b)
           THEN Panic(BorrowMutError)
           ELSE \* new_multislot; add_possible_value commits a Single
                /\ regs' = [regs EXCEPT ![b] = commit(@, b, num, 0, <<slot>>)]
                /\ stack' = [stack EXCEPT ![Len(stack)] =
                       [top EXCEPT !.pc = IF originates_here(g, slot) THEN "get" ELSE "preds",
                                   !.num = num, !.slots = <<slot>>, !.i = 1]]
                /\ UNCHANGED <<ret, trans>>
                /\ UNCHANGED lirFrame

\* new_slot: the loop over self.preds that flows a foreign value in
new_slot_preds ==
    /\ Running /\ top.op = "new_slot" /\ top.pc = "preds"
    /\ IF top.i > Len(g.preds[top.b])
       THEN stack' = [stack EXCEPT ![Len(stack)] = [top EXCEPT !.pc = "get"]]
       ELSE stack' = Append([stack EXCEPT ![Len(stack)] = [top EXCEPT !.i = @ + 1]],
                            flow_frame(Edge(g, top.b, top.i), top.slots[1]))
    /\ UNCHANGED <<ret, regs, trans>>
    /\ UNCHANGED lirFrame

\* MultiSlotBuilder::get_multislot, for either kind of multislot
get_multislot ==
    /\ Running /\ top.op \in {"new_slot", "new_multislot_from_phi"} /\ top.pc = "get"
    /\ LET b == top.b
           phi == IF top.op = "new_slot" THEN 0 ELSE top.value
           rs == commit(regs[b], b, top.num, phi, top.slots)
       IN  IF block_borrowed(stack, b)
           THEN Panic(BorrowMutError)
           ELSE IF ~commit_ok(regs[b], top.num)
           THEN Panic("unreachable: commit")
           ELSE /\ regs' = [regs EXCEPT ![b] = rs]
                /\ ret' = rs[top.num + 1]
                /\ stack' = Front(stack)
                /\ UNCHANGED trans
                /\ UNCHANGED lirFrame

\* new_multislot_from_phi: one input of the phi (add_possible_value, then
\* add_incoming_value_flow on the edge from its cfg_pred)
new_multislot_from_phi ==
    /\ Running /\ top.op = "new_multislot_from_phi" /\ top.pc = "preds"
    /\ LET b == top.b
           ins == g.nodes[top.value].ins
           value == ins[top.i]
           slot == new_value_slot(g, b, top.num, value, top.term)
           slots == Append(top.slots, slot)
       IN  IF top.i > Len(ins)
           THEN /\ stack' = [stack EXCEPT ![Len(stack)] = [top EXCEPT !.pc = "get"]]
                /\ UNCHANGED <<ret, regs, trans>>
                /\ UNCHANGED lirFrame
           ELSE IF Len(regs[b]) < top.num
           THEN Panic("assert: regs.len() >= num")
           ELSE IF Len(regs[b]) > top.num + 1
           THEN Panic("assert: regs.len() <= num + 1")
           ELSE IF \E k \in 1..Len(top.slots) : top.slots[k].firm = value
           THEN Panic("assert: !is_duplicate")
           ELSE IF block_borrowed(stack, b)
           THEN Panic(BorrowMutError)
           ELSE /\ regs' = [regs EXCEPT ![b] = commit(@, b, top.num, top.value, slots)]
                /\ stack' = Append(
                       [stack EXCEPT ![Len(stack)] = [top EXCEPT !.i = @ + 1, !.slots = slots]],
                       flow_frame(find_incoming_edge_from(g, b, g.preds[b][top.i]), slot))
                /\ UNCHANGED <<ret, trans>>
                /\ UNCHANGED lirFrame

\* add_incoming_value_flow: an existing transition for the value, or a
\* forwarding slot in the source block
add_incoming_value_flow ==
    /\ Running /\ top.op = "add_incoming_value_flow" /\ top.pc = "find"
    /\ LET e == top.e
           SameValue(t) == t[2].firm = top.tslot.firm
           found == FirstIdx(trans[e], SameValue)
       IN  IF found # 0
           THEN IF trans[e][found][2].num # top.tslot.num
                THEN Panic("assert_eq: target.num == target_slot.num")
                ELSE /\ stack' = Front(stack)
                     /\ UNCHANGED <<ret, regs, trans>>
                     /\ UNCHANGED lirFrame
           ELSE \* new_forwarding_slot
                /\ stack' = Append(
                       [stack EXCEPT ![Len(stack)] = [top EXCEPT !.pc = "push"]],
                       new_slot_frame(e.src, top.tslot.firm, top.tslot.term))
                /\ UNCHANGED <<ret, regs, trans>>
                /\ UNCHANGED lirFrame

\* add_incoming_value_flow: check the forwarding slot, push the transition
push_transition ==
    /\ Running /\ top.op = "add_incoming_value_flow" /\ top.pc = "push"
    /\ IF ~source_slot_ok(ret, top.tslot)
       THEN Panic("assert: source slot holds the value")
       ELSE IF edge_borrowed(stack, top.e)
       THEN Panic(BorrowMutError)
       ELSE /\ trans' = [trans EXCEPT ![top.e] = Append(@, <<ret, top.tslot>>)]
            /\ stack' = Front(stack)
            /\ UNCHANGED <<ret, regs>>
            /\ UNCHANGED lirFrame

----------------------------------------------------------------------------
(* BlockGraph::gen_instrs: GenInstrBlock::gen for the blocks of iter_blocks *)

\* BlockGraph::iter_blocks
iter_blocks ==
    /\ pc = "flows_done"
    /\ pc' = "gen"
    /\ visit_list' = <<g.start>>
    /\ visitedG' = {}
    /\ UNCHANGED <<g, walk, visitedB, order, succs, cur, nodesLeft, valsLeft, stack, ret,
                   regs, trans, panic, copy_in, copy_out>>

RECURSIVE iter_push(_, _, _, _)
\* BasicBlockIter::next: the loop over block.succs; <<visit_list, visited>>
iter_push(sc, i, vl, vis) ==
    IF i > Len(sc) THEN <<vl, vis>>
    ELSE IF sc[i].tgt \in vis THEN iter_push(sc, i + 1, vl, vis)
    ELSE iter_push(sc, i + 1, Append(vl, sc[i].tgt), vis \cup {sc[i].tgt})

\* the flows of edge e selected for slot num and a place, in order
RECURSIVE flows_where(_, _, _, _)
flows_where(e, k, Sel(_, _), acc) ==
    IF k > Len(trans[e]) THEN acc
    ELSE flows_where(e, k + 1, Sel,
                     IF Sel(e, k) THEN Append(acc, [e |-> e, idx |-> k]) ELSE acc)

\* a variant that copies in the target block whatever the source block does
RECURSIVE gen_copy_in_all(_, _, _, _)
gen_copy_in_all(b, num, i, acc) ==
    IF i > Len(g.preds[b]) THEN acc
    ELSE LET e == Edge(g, b, i)
             Sel(ee, k) == trans[ee][k][2].num = num
         IN  gen_copy_in_all(b, num, i + 1, flows_where(e, 1, Sel, acc))

\* the "Input slots" part of GenInstrBlock::gen for one slot number
RECURSIVE gen_copy_in(_, _, _, _)
gen_copy_in(b, num, i, acc) ==
    IF i > Len(g.preds[b]) THEN acc
    ELSE LET e == Edge(g, b, i)
             Sel(ee, k) == trans[ee][k][2].num = num /\ ~must_copy_in_source(g, trans, ee, k)
         IN  gen_copy_in(b, num, i + 1, flows_where(e, 1, Sel, acc))

\* the "Output slots" part of GenInstrBlock::gen for one slot number
RECURSIVE gen_copy_out(_, _, _, _)
gen_copy_out(b, num, i, acc) ==
    IF i > Len(succs[b]) THEN acc
    ELSE LET e == succs[b][i]
             Sel(ee, k) == /\ multislot_num(trans[ee][k][1]) = num
                           /\ must_copy_in_source(g, trans, ee, k)
         IN  gen_copy_out(b, num, i + 1, flows_where(e, 1, Sel, acc))

RECURSIVE gen_slots(_, _, _)
\* the loop over block.regs in GenInstrBlock::gen; <<copy_in, copy_out>>
gen_slots(b, num, acc) ==
    IF num >= Len(regs[b]) THEN acc
    ELSE gen_slots(b, num + 1,
                   <<gen_copy_in(b, num, 1, acc[1]), gen_copy_out(b, num, 1, acc[2])>>)

\* the assertion in GenInstrBlock::gen fails for some incoming flow of b
lost_copy(b) ==
    \E i \in 1..Len(g.preds[b]) :
        LET e == Edge(g, b, i)
        IN  \E k \in 1..Len(trans[e]) :
                /\ trans[e][k][2].num < Len(regs[b])
                /\ must_copy_in_source(g, trans, e, k)
                /\ must_copy_in_target(g, trans, e, k)

\* GenInstrBlock::gen for the next block of the iterator
gen ==
    /\ pc = "gen"
    /\ visit_list # <<>>
    /\ LET b == Head(visit_list)
           it == iter_push(succs[b], 1, Tail(visit_list), visitedG)
           code == gen_slots(b, 0, <<copy_in[b], copy_out[b]>>)
       IN  IF lost_copy(b)
           THEN Panic("possible lost-copy detected")
           ELSE /\ visit_list' = it[1]
                /\ visitedG' = it[2]
                /\ copy_in' = [copy_in EXCEPT ![b] = code[1]]
                /\ copy_out' = [copy_out EXCEPT ![b] = code[2]]
                /\ UNCHANGED <<g, pc, walk, visitedB, order, succs, cur, nodesLeft, valsLeft,
                               stack, ret, regs, trans, panic>>

\* the iterator is exhausted
gen_instrs_done ==
    /\ pc = "gen"
    /\ visit_list = <<>>
    /\ pc' = "done"
    /\ UNCHANGED <<g, walk, visitedB, order, succs, cur, nodesLeft, valsLeft, stack, ret,
                   regs, trans, panic, visit_list, visitedG, copy_in, copy_out>>

----------------------------------------------------------------------------
(* amd64: FunctionCall and Function of lowering/amd64/function.rs.         *)
(* An instruction is a record; an Option<FnInstruction> that is None is    *)
(* NoInstr.  The argument a_i of a Call is the lir operand [imm |-> i].    *)

MaxArgs == 8

MaxRegs == 15

NoDst == [none |-> TRUE]

DstSlot == [slot |-> 0]

NoInstr == [op |-> "None"]

Reg(r) == [reg |-> r]

LirOperand(o) == [lir |-> o]

Movq(src, d) == [op |-> "Movq", src |-> src, dst |-> d]

Pushq(src) == [op |-> "Pushq", src |-> src]

Popq(d) == [op |-> "Popq", dst |-> d]

Addq(n, d) == [op |-> "Addq", src |-> n, dst |-> d]

\* Amd64Reg::arg(i), i counted from 0
ArgRegs == <<"Rdi", "Rsi", "Rdx", "Rcx", "R8", "R9">>

Amd64Reg_arg(i) == ArgRegs[i + 1]

\* the register list of save_regs! in setup_x86_64_cconv and setup_stack_cconv
CallerSave == <<"Rdi", "Rsi", "Rdx", "Rcx", "R8", "R9", "R10", "R11", "Rax">>

Regs == {"Rdi", "Rsi", "Rdx", "Rcx", "R8", "R9", "R10", "R11", "Rax",
         "Rbx", "R12", "R13", "R14", "R15"}

Reverse(s) == [i \in 1..Len(s) |-> s[Len(s) + 1 - i]]

\* macro save_regs!: for each register of the list, in list order, a Pushq is
\* pushed to the save instructions and a Popq to the restore instructions
save_regs_macro(list, save_instrs, restore_instrs) ==
    [save    |-> save_instrs \o [i \in 1..Len(list) |-> Pushq(Reg(list[i]))],
     restore |-> restore_instrs \o [i \in 1..Len(list) |-> Popq(Reg(list[i]))]]

\* the number of arguments passed in registers
NumRegArgs == 6

\* the size of a stack argument in bytes
ArgSize == 8

SelectSeq2(s, Test(_)) ==
    LET RECURSIVE sel(_)
        sel(i) == IF i > Len(s) THEN <<>>
                  ELSE (IF Test(i) THEN <<s[i]>> ELSE <<>>) \o sel(i + 1)
    IN  sel(1)

\* the loop over args.into_iter().enumerate(): the moves, pushed to setup
x86_64_moves(as) ==
    LET InReg(i) == i - 1 < NumRegArgs
        moved == SelectSeq2(as, InReg)
    IN  [i \in 1..Len(moved) |-> Movq(LirOperand(moved[i]), Reg(Amd64Reg_arg(i - 1)))]

\* the loop over args.into_iter().enumerate(): the pushes, collected in push_setup
x86_64_push_setup(as) ==
    LET OnStack(i) == ~(i - 1 < NumRegArgs)
        pushed == SelectSeq2(as, OnStack)
    IN  [i \in 1..Len(pushed) |-> Pushq(LirOperand(pushed[i]))]

\* setup with the pushes appended in argument order
x86_64_setup_in_order(as) == x86_64_moves(as) \o x86_64_push_setup(as)

\* self.setup after the loop and the append of the reversed push_setup
x86_64_setup(as) ==
    IF x86_64_push_setup(as) # <<>>
    THEN x86_64_moves(as) \o Reverse(x86_64_push_setup(as))
    ELSE x86_64_moves(as)

move_res_of(d) ==
    IF d = NoDst THEN NoInstr ELSE Movq(Reg("Rax"), LirOperand(d))

EmptyCall ==
    [arg_save |-> <<>>, setup |-> <<>>, move_res |-> NoInstr, recover |-> NoInstr,
     arg_recover |-> <<>>]

\* a variant whose recover removes all arguments from the stack, also
\* those passed in registers
setup_x86_64_cconv_recover_all(as, d) ==
    LET saved == save_regs_macro(CallerSave, <<>>, <<>>)
    IN  [arg_save    |-> saved.save,
         setup       |-> x86_64_setup(as),
         move_res    |-> move_res_of(d),
         recover     |-> IF as # <<>>
                         THEN Addq(Len(as) * ArgSize, Reg("Rsp"))
                         ELSE NoInstr,
         arg_recover |-> saved.restore]

setup_x86_64_cconv(as, d) ==
    LET saved == save_regs_macro(CallerSave, <<>>, <<>>)
        push_setup == x86_64_push_setup(as)
    IN  [arg_save    |-> saved.save,
         setup       |-> x86_64_setup(as),
         move_res    |-> move_res_of(d),
         recover     |-> IF push_setup # <<>>
                         THEN Addq(Len(push_setup) * ArgSize, Reg("Rsp"))
                         ELSE NoInstr,
         arg_recover |-> saved.restore]

setup_stack_cconv(as, d) ==
    LET saved == save_regs_macro(CallerSave, <<>>, <<>>)
        setup == [i \in 1..Len(as) |-> Pushq(LirOperand(Reverse(as)[i]))]
    IN  [arg_save    |-> saved.save,
         setup       |-> setup,
         move_res    |-> move_res_of(d),
         recover     |-> Addq(Len(setup) * ArgSize, Reg("Rsp")),
         arg_recover |-> saved.restore]

\* the match of save_callee_save_regs with "x if x < 10" read as "x <= 10"
callee_save_arm_late(n) ==
    CASE n <= 10 -> [panics |-> FALSE, list |-> <<>>]
      [] n = 11 -> [panics |-> FALSE, list |-> <<"Rbx", "R12">>]
      [] n = 12 -> [panics |-> FALSE, list |-> <<"Rbx", "R12", "R13">>]
      [] n = 13 -> [panics |-> FALSE, list |-> <<"Rbx", "R12", "R13", "R14">>]
      [] n = 14 -> [panics |-> FALSE, list |-> <<"Rbx", "R12", "R13", "R14", "R15">>]
      [] OTHER -> [panics |-> TRUE, list |-> <<>>]

\* the match on num_regs_required in save_callee_save_regs
callee_save_arm(n) ==
    CASE n < 10 -> [panics |-> FALSE, list |-> <<>>]
      [] n = 10 -> [panics |-> FALSE, list |-> <<"Rbx">>]
      [] n = 11 -> [panics |-> FALSE, list |-> <<"Rbx", "R12">>]
      [] n = 12 -> [panics |-> FALSE, list |-> <<"Rbx", "R12", "R13">>]
      [] n = 13 -> [panics |-> FALSE, list |-> <<"Rbx", "R12", "R13", "R14">>]
      [] n = 14 -> [panics |-> FALSE, list |-> <<"Rbx", "R12", "R13", "R14", "R15">>]
      [] OTHER -> [panics |-> TRUE, list |-> <<>>]

\* a register holds the value it had at function entry, named after it
InitRegs == [r \in Regs |-> r]

Clobbered == "clobbered"

Body == [op |-> "Body"]

idleAmd ==
    /\ cconv = "X86_64" /\ args = <<>> /\ dst = NoDst /\ num_regs_required = 0
    /\ call = EmptyCall /\ save_regs = <<>> /\ restore_regs = <<>>
    /\ apc = "off" /\ prog = <<>> /\ ip = 0 /\ mreg = InitRegs /\ mstk = <<>>

InitAmd ==
    /\ cconv \in {"X86_64", "Stack"}
    /\ \E n \in 0..MaxArgs : args = [i \in 1..n |-> [imm |-> i - 1]]
    /\ dst \in {NoDst, DstSlot}
    /\ num_regs_required \in 0..MaxRegs
    /\ call = EmptyCall /\ save_regs = <<>> /\ restore_regs = <<>>
    /\ apc = "init" /\ prog = <<>> /\ ip = 0 /\ mreg = InitRegs /\ mstk = <<>>

\* FunctionCall::new
FunctionCall_new ==
    /\ apc = "init"
    /\ call' = IF cconv = "X86_64" THEN setup_x86_64_cconv(args, dst)
               ELSE setup_stack_cconv(args, dst)
    /\ apc' = "called"
    /\ UNCHANGED <<cconv, args, dst, num_regs_required, save_regs, restore_regs,
                   prog, ip, mreg, mstk>>

\* Function::save_callee_save_regs
save_callee_save_regs ==
    /\ apc = "called"
    /\ LET arm == callee_save_arm(num_regs_required)
           saved == save_regs_macro(arm.list, save_regs, restore_regs)
       IN  IF arm.panics
           THEN /\ apc' = "panic"
                /\ UNCHANGED <<save_regs, restore_regs>>
           ELSE /\ apc' = "saved"
                /\ save_regs' = saved.save
                /\ restore_regs' = saved.restore
    /\ UNCHANGED <<cconv, args, dst, num_regs_required, call, prog, ip, mreg, mstk>>

\* the function body runs between save_regs and restore_regs
run_function ==
    /\ apc = "saved"
    /\ prog' = save_regs \o <<Body>> \o restore_regs
    /\ ip' = 1
    /\ apc' = "exec_fn"
    /\ UNCHANGED <<cconv, args, dst, num_regs_required, call, save_regs, restore_regs,
                   mreg, mstk>>

\* the callee runs between arg_save and arg_recover
run_call ==
    /\ apc = "saved"
    /\ prog' = call.arg_save \o <<Body>> \o call.arg_recover
    /\ ip' = 1
    /\ apc' = "exec_call"
    /\ UNCHANGED <<cconv, args, dst, num_regs_required, call, save_regs, restore_regs,
                   mreg, mstk>>

Executing == apc \in {"exec_fn", "exec_call"} /\ ip <= Len(prog)

exec_pushq ==
    /\ Executing /\ prog[ip].op = "Pushq"
    /\ mstk' = Append(mstk, mreg[prog[ip].src.reg])
    /\ ip' = ip + 1
    /\ UNCHANGED <<cconv, args, dst, num_regs_required, call, save_regs, restore_regs,
                   apc, prog, mreg>>

exec_popq ==
    /\ Executing /\ prog[ip].op = "Popq"
    /\ mreg' = [mreg EXCEPT ![prog[ip].dst.reg] = Last(mstk)]
    /\ mstk' = Front(mstk)
    /\ ip' = ip + 1
    /\ UNCHANGED <<cconv, args, dst, num_regs_required, call, save_regs, restore_regs,
                   apc, prog>>

\* the code between save and restore overwrites every register and leaves
\* the stack as it found it
exec_body ==
    /\ Executing /\ prog[ip].op = "Body"
    /\ mreg' = [r \in Regs |-> Clobbered]
    /\ ip' = ip + 1
    /\ UNCHANGED <<cconv, args, dst, num_regs_required, call, save_regs, restore_regs,
                   apc, prog, mstk>>

exec_done ==
    /\ apc \in {"exec_fn", "exec_call"} /\ ip > Len(prog)
    /\ apc' = IF apc = "exec_fn" THEN "halt_fn" ELSE "halt_call"
    /\ UNCHANGED <<cconv, args, dst, num_regs_required, call, save_regs, restore_regs,
                   prog, ip, mreg, mstk>>

----------------------------------------------------------------------------
(* Method body type checker.  A diagnostic is [kind, at, stmt]: its kind,  *)
(* the node whose span it is reported at ("stmt", "expr" or "name") and    *)
(* the index of the statement being checked.  A typing result is           *)
(* [ok, ty, diags]: Ok(ty) or Err(()), and the diagnostics reported on     *)
(* the way.                                                                *)

MaxStmts == 2

Names == {"a", "b"}

Types == {"Int", "Boolean", "Void", "TypeRef"}

\* the declared type of a local variable or parameter
LocalTy(n) == IF n = "a" THEN "Int" ELSE "Boolean"

\* the declared type of a field of the current class
FieldTy(n) == IF n = "a" THEN "Boolean" ELSE "TypeRef"

Var(n) == [e |-> "Var", name |-> n]

Lit(e) == [e |-> e, name |-> ""]

Exprs == {Lit("Int"), Lit("Boolean"), Lit("Null"), Lit("This")} \cup {Var(n) : n \in Names}

NoExpr == [e |-> "None", name |-> ""]

Return(e) == [kind |-> "Return", expr |-> e]

Expression(e) == [kind |-> "Expression", expr |-> e]

NoStmt == [kind |-> "None", expr |-> NoExpr]

Diag(kind, at, k) == [kind |-> kind, at |-> at, stmt |-> k]

Ok(ty, ds) == [ok |-> TRUE, ty |-> ty, diags |-> ds]

Err(ds) == [ok |-> FALSE, ty |-> "", diags |-> ds]

\* Result::or_else: the closure runs only on Err
or_else(r, F(_)) == IF r.ok THEN r ELSE F(r.diags)

\* CheckedType::is_assignable_from, for the types of this model
is_assignable_from(target, ty) == target = ty

\* MethodBodyTypeChecker::lookup_var
lookup_var(n, k) ==
    LET local(ds) ==
            IF n \in local_scope THEN Ok(LocalTy(n), ds) ELSE Err(ds)
        field(ds) ==
            IF n \in fields
            THEN Ok(FieldTy(n),
                    IF is_static
                    THEN Append(ds, Diag("CannotAccessNonStaticFieldInStaticMethod", "name", k))
                    ELSE ds)
            ELSE Err(ds)
        class(ds) ==
            IF n \in classes
            THEN Err(Append(ds, Diag("InvalidReferenceToClass", "name", k)))
            ELSE Err(ds)
        system(ds) == Err(ds)
        cannot(ds) == Err(Append(ds, Diag("CannotLookupVarOrField", "name", k)))
    IN  or_else(or_else(or_else(or_else(local(<<>>), field), class), system), cannot)

\* MethodBodyTypeChecker::get_type_expr, for literals, this and identifiers
get_type_expr(e, k) ==
    CASE e.e = "Null" -> Err(<<>>)
      [] e.e = "Boolean" -> Ok("Boolean", <<>>)
      [] e.e = "Int" -> Ok("Int", <<>>)
      [] e.e = "Var" -> lookup_var(e.name, k)
      [] e.e = "This" -> IF is_static
                         THEN Err(<<Diag("ThisInStaticMethod", "name", k)>>)
                         ELSE Ok("TypeRef", <<>>)

\* type_expr of type_checking/: typing of an expression
type_expr(e, k) == get_type_expr(e, k)

\* check_type of type_checking/, called for the expression of a return
check_type(e, expected_ty, k) ==
    LET r == type_expr(e, k)
    IN  IF r.ok /\ ~is_assignable_from(expected_ty, r.ty)
        THEN Append(r.diags, Diag("InvalidReturnType", "stmt", k))
        ELSE r.diags

\* the Return arm with the assignability test inverted
check_return_old_inverted(e, k) ==
    IF e = NoExpr
    THEN IF return_ty = "Void" THEN <<>>
         ELSE <<Diag("MethodMustReturnSomething", "stmt", k)>>
    ELSE LET r == get_type_expr(e, k)
         IN  IF return_ty = "Void"
             THEN Append(r.diags, Diag("VoidMethodCannotReturnValue", "stmt", k))
             ELSE IF r.ok /\ is_assignable_from(return_ty, r.ty)
                  THEN Append(r.diags, Diag("InvalidReturnType", "stmt", k))
                  ELSE r.diags

\* check_type_stmt, arm Return, of method_body_typechecker.rs: the
\* diagnostics it reports
check_return_old(e, k) ==
    IF e = NoExpr
    THEN IF return_ty = "Void" THEN <<>>
         ELSE <<Diag("MethodMustReturnSomething", "stmt", k)>>
    ELSE LET r == get_type_expr(e, k)
         IN  IF return_ty = "Void"
             THEN Append(r.diags, Diag("VoidMethodCannotReturnValue", "stmt", k))
             ELSE IF r.ok /\ ~is_assignable_from(return_ty, r.ty)
                  THEN Append(r.diags, Diag("InvalidReturnType", "stmt", k))
                  ELSE r.diags

\* check_type_stmt, arm Return, of type_checking/method_body_typechecker.rs
check_return_new(e, k) ==
    CASE e = NoExpr /\ return_ty = "Void" -> <<>>
      [] e = NoExpr /\ return_ty # "Void" ->
             <<Diag("MethodMustReturnSomething", "stmt", k)>>
      [] e # NoExpr /\ return_ty = "Void" ->
             Append(type_expr(e, k).diags, Diag("VoidMethodCannotReturnValue", "stmt", k))
      [] OTHER -> check_type(e, return_ty, k)

\* no expression was typed
NoRes == [ok |-> FALSE, ty |-> "none"]

\* the Result of typing the expression of a statement
typing(e, k) ==
    IF e = NoExpr THEN NoRes
    ELSE [ok |-> get_type_expr(e, k).ok, ty |-> get_type_expr(e, k).ty]

\* a call of check_type_block whose statements are being checked
BlockFrame == [kind |-> "block", n |-> 0]

\* an If or While arm with n statements still to be checked
BodyFrame(n) == [kind |-> "body", n |-> n]

\* check_type_stmt can be called: a block is open or an arm is pending
can_check == ctl # <<>> /\ (Last(ctl).kind = "block" \/ Last(ctl).n > 0)

\* check_type_stmt is called for the next statement of the innermost frame
enter_stmt(c) ==
    IF Last(c).kind = "body" THEN [c EXCEPT ![Len(c)].n = @ - 1] ELSE c

\* check_type_stmt returns: an If or While arm whose statements are all
\* checked returns as well
RECURSIVE return_stmt(_)
return_stmt(c) ==
    IF c # <<>> /\ Last(c).kind = "body" /\ Last(c).n = 0
    THEN return_stmt(Front(c))
    ELSE c

\* Scoped::enter_scope
enter_scope(s) == Append(s, {})

\* Scoped::leave_scope; Err in the root scope
leave_scope(s) == [ok |-> Len(s) > 1, scopes |-> IF Len(s) > 1 THEN Front(s) ELSE s]

\* the names Scoped resolves: those of all open scopes
visible(s) == UNION Range(s)

\* Scoped::define: Err when the name is defined in an open scope
define(s, n) ==
    IF n \in visible(s)
    THEN [ok |-> FALSE, scopes |-> s]
    ELSE [ok |-> TRUE, scopes |-> [s EXCEPT ![Len(s)] = @ \cup {n}]]

idleTc ==
    /\ tc_version = "old" /\ return_ty = "Void" /\ is_static = FALSE
    /\ local_scope = {} /\ fields = {} /\ classes = {}
    /\ diags = <<>> /\ tc_n = 0 /\ last = [stmt |-> NoStmt, from |-> 0, res |-> NoRes]
    /\ scopes = <<{}>> /\ ctl = <<>> /\ hist = <<>>

\* the state in which check_type_block is entered: the parameters are defined
InitTc ==
    /\ tc_version \in {"old", "new"}
    /\ return_ty \in Types
    /\ is_static \in BOOLEAN
    /\ local_scope \in SUBSET Names
    /\ fields \in SUBSET Names
    /\ classes \in SUBSET Names
    /\ diags = <<>> /\ tc_n = 0 /\ last = [stmt |-> NoStmt, from |-> 0, res |-> NoRes]
    /\ scopes = enter_scope(<<local_scope>>)
    /\ ctl = <<BlockFrame>>
    /\ hist = <<[ev |-> "enter_scope", name |-> ""]>>

\* check_type_stmt on "return;" or "return e;"
check_type_stmt_return(e) ==
    /\ tc_n < MaxStmts
    /\ can_check
    /\ ctl' = return_stmt(enter_stmt(ctl))
    /\ tc_n' = tc_n + 1
    /\ diags' = diags \o (IF tc_version = "old" THEN check_return_old(e, tc_n + 1)
                          ELSE check_return_new(e, tc_n + 1))
    /\ last' = [stmt |-> Return(e), from |-> Len(diags), res |-> typing(e, tc_n + 1)]
    /\ UNCHANGED <<tc_version, return_ty, is_static, local_scope, fields, classes,
                   scopes, hist>>

\* check_type_stmt on an expression statement
check_type_stmt_expression(e) ==
    /\ tc_n < MaxStmts
    /\ can_check
    /\ ctl' = return_stmt(enter_stmt(ctl))
    /\ tc_n' = tc_n + 1
    /\ diags' = diags \o (IF tc_version = "old" THEN get_type_expr(e, tc_n + 1).diags
                          ELSE type_expr(e, tc_n + 1).diags)
    /\ last' = [stmt |-> Expression(e), from |-> Len(diags), res |-> typing(e, tc_n + 1)]
    /\ UNCHANGED <<tc_version, return_ty, is_static, local_scope, fields, classes,
                   scopes, hist>>

\* Statements of a method body: blocks, declarations, conditions
MaxBodyStmts == 3

BodyExprs == {Lit("Int"), Lit("Boolean"), Lit("Null"), Var("a")}

Block == [kind |-> "Block", expr |-> NoExpr]

Empty == [kind |-> "Empty", expr |-> NoExpr]

LocalVariableDeclaration(n, init) ==
    [kind |-> "LocalVariableDeclaration", expr |-> init, name |-> n]

If(c, els) == [kind |-> "If", expr |-> c, els |-> els]

While(c) == [kind |-> "While", expr |-> c]

\* the closure of unwrap_or_else on the Result of define
redefinition(defined, k) ==
    IF defined.ok THEN <<>> ELSE <<Diag("RedefinitionError", "name", k)>>

\* check_type_stmt, arm LocalVariableDeclaration, of
\* method_body_typechecker.rs: the check of the initializer, made with the
\* name defined
check_initializer_old(init, def_ty, k) ==
    IF init = NoExpr THEN <<>>
    ELSE LET r == get_type_expr(init, k)
         IN  IF r.ok /\ ~is_assignable_from(def_ty, r.ty)
             THEN Append(r.diags, Diag("InvalidType", "expr", k))
             ELSE r.diags

\* the same part of type_checking/method_body_typechecker.rs
check_initializer_new(init, def_ty, k) ==
    IF init = NoExpr THEN <<>> ELSE check_type(init, def_ty, k)

\* an arm LocalVariableDeclaration that returns after the redefinition error
check_local_return_on_redefinition(defined, initializer, k) ==
    IF defined.ok THEN initializer ELSE redefinition(defined, k)

\* check_type_stmt, arm LocalVariableDeclaration: the diagnostics of define
\* and then those of the initializer
check_local(defined, initializer, k) == redefinition(defined, k) \o initializer

\* the condition part of the arms If and While of method_body_typechecker.rs
check_condition_old(c, k) ==
    LET r == get_type_expr(c, k)
    IN  IF r.ok /\ ~is_assignable_from("Boolean", r.ty)
        THEN Append(r.diags, Diag("ConditionMustBeBoolean", "expr", k))
        ELSE r.diags

\* the condition part of the arms If and While of type_checking/
check_condition_new(c, k) ==
    LET r == type_expr(c, k)
    IN  IF r.ok /\ ~is_assignable_from("Boolean", r.ty)
        THEN Append(r.diags, Diag("ConditionMustBeBoolean", "expr", k))
        ELSE r.diags

\* an If arm that returns early when its condition is in error
if_arms_unless_error(c, els, k) ==
    IF get_type_expr(c, k).ok /\ ~is_assignable_from("Boolean", get_type_expr(c, k).ty)
    THEN 0
    ELSE IF els THEN 2 ELSE 1

\* the calls of check_type_stmt the arm If makes after the condition
if_arms(c, els, k) == IF els THEN 2 ELSE 1

\* check_type_stmt on a block: check_type_block up to its first statement
check_type_block_enter ==
    /\ tc_n < MaxBodyStmts
    /\ can_check
    /\ tc_n' = tc_n + 1
    /\ scopes' = enter_scope(scopes)
    /\ ctl' = Append(enter_stmt(ctl), BlockFrame)
    /\ hist' = Append(hist, [ev |-> "enter_scope", name |-> ""])
    /\ last' = [stmt |-> Block, from |-> Len(diags), res |-> NoRes]
    /\ UNCHANGED <<tc_version, return_ty, is_static, local_scope, fields, classes, diags>>

\* check_type_block after its last statement: leave_scope and return
check_type_block_leave ==
    /\ ctl # <<>> /\ Last(ctl).kind = "block"
    /\ leave_scope(scopes).ok
    /\ scopes' = leave_scope(scopes).scopes
    /\ local_scope' = visible(scopes')
    /\ ctl' = return_stmt(Front(ctl))
    /\ hist' = Append(hist, [ev |-> "leave_scope", name |-> ""])
    /\ UNCHANGED <<tc_version, return_ty, is_static, fields, classes, diags, tc_n, last>>

\* check_type_stmt on ";"
check_type_stmt_empty ==
    /\ tc_n < MaxBodyStmts
    /\ can_check
    /\ tc_n' = tc_n + 1
    /\ ctl' = return_stmt(enter_stmt(ctl))
    /\ last' = [stmt |-> Empty, from |-> Len(diags), res |-> NoRes]
    /\ UNCHANGED <<tc_version, return_ty, is_static, local_scope, fields, classes, diags,
                   scopes, hist>>

\* check_type_stmt on a local variable declaration
check_type_stmt_local(n, init) ==
    /\ tc_n < MaxBodyStmts
    /\ can_check
    /\ tc_n' = tc_n + 1
    /\ UNCHANGED <<tc_version, return_ty, is_static, fields, classes>>
    /\ scopes' = define(scopes, n).scopes
    /\ local_scope' = visible(scopes')
    /\ diags' = diags \o check_local(define(scopes, n),
                                     (IF tc_version = "old"
                                      THEN check_initializer_old(init, LocalTy(n), tc_n)
                                      ELSE check_initializer_new(init, LocalTy(n), tc_n))',
                                     tc_n + 1)
    /\ ctl' = return_stmt(enter_stmt(ctl))
    /\ hist' = Append(hist, [ev |-> "define", name |-> n])
    /\ last' = [stmt |-> LocalVariableDeclaration(n, init), from |-> Len(diags),
                res |-> NoRes]

\* check_type_stmt on an If, up to the check of its arms
check_type_stmt_if(c, els) ==
    /\ tc_n < MaxBodyStmts
    /\ can_check
    /\ tc_n' = tc_n + 1
    /\ diags' = diags \o (IF tc_version = "old" THEN check_condition_old(c, tc_n + 1)
                          ELSE check_condition_new(c, tc_n + 1))
    /\ ctl' = return_stmt(Append(enter_stmt(ctl), BodyFrame(if_arms(c, els, tc_n + 1))))
    /\ last' = [stmt |-> If(c, els), from |-> Len(diags), res |-> typing(c, tc_n + 1)]
    /\ UNCHANGED <<tc_version, return_ty, is_static, local_scope, fields, classes,
                   scopes, hist>>

\* check_type_stmt on a While, up to the check of its body
check_type_stmt_while(c) ==
    /\ tc_n < MaxBodyStmts
    /\ can_check
    /\ tc_n' = tc_n + 1
    /\ diags' = diags \o (IF tc_version = "old" THEN check_condition_old(c, tc_n + 1)
                          ELSE check_condition_new(c, tc_n + 1))
    /\ ctl' = Append(enter_stmt(ctl), BodyFrame(1))
    /\ last' = [stmt |-> While(c), from |-> Len(diags), res |-> typing(c, tc_n + 1)]
    /\ UNCHANGED <<tc_version, return_ty, is_static, local_scope, fields, classes,
                   scopes, hist>>

\* check_methods up to the call of check_type_block on the method body: the
\* parameters are defined in the root scope
InitBody ==
    /\ tc_version \in {"old", "new"}
    /\ return_ty = "Void"
    /\ is_static = FALSE
    /\ local_scope \in SUBSET Names
    /\ fields = {}
    /\ classes = {}
    /\ diags = <<>> /\ tc_n = 0 /\ last = [stmt |-> NoStmt, from |-> 0, res |-> NoRes]
    /\ scopes = enter_scope(<<local_scope>>)
    /\ ctl = <<BlockFrame>>
    /\ hist = <<[ev |-> "enter_scope", name |-> ""]>>

----------------------------------------------------------------------------
(* Diagnostics: the counters of the messages emitted, by level, and the    *)
(* summary line.  The HashMap is a function whose domain is the set of     *)
(* keys present.                                                           *)

MaxCalls == 4

MessageLevel == {"Error", "Warning", "Info"}

\* HashMap::new
EmptyMap == [l \in {} |-> 0]

\* HashMap::get(..).is_some()
is_some(mc, level) == level \in DOMAIN mc

\* Diagnostics::errored on any key present
errored_any_level(mc) == DOMAIN mc # {}

\* Diagnostics::errored
errored(mc) == is_some(mc, "Error")

\* Diagnostics::count
count(mc, level) == IF is_some(mc, level) THEN mc[level] ELSE 0

\* Diagnostics::increment_level_count: entry(level).or_insert(0), += 1
increment_level_count(mc, level) ==
    [l \in DOMAIN mc \cup {level} |-> IF l = level THEN count(mc, l) + 1 ELSE mc[l]]

Digit(d) ==
    CASE d = 0 -> "0" [] d = 1 -> "1" [] d = 2 -> "2" [] d = 3 -> "3" [] d = 4 -> "4"
      [] d = 5 -> "5" [] d = 6 -> "6" [] d = 7 -> "7" [] d = 8 -> "8" [] d = 9 -> "9"

\* Display of usize: the decimal digits
RECURSIVE to_string(_)
to_string(n) == IF n < 10 THEN Digit(n) ELSE to_string(n \div 10) \o Digit(n % 10)

\* write_statistics with the plural form for every number of errors
statistics_plural(mc) ==
    IF errored(mc)
    THEN "Compilation aborted due to " \o to_string(count(mc, "Error")) \o " errors"
    ELSE "Compilation finished successfully "
         \o (CASE count(mc, "Warning") = 0 -> "without warnings"
               [] count(mc, "Warning") = 1 -> "with a warning"
               [] OTHER -> "with " \o to_string(count(mc, "Warning")) \o " warnings")

\* Diagnostics::write_statistics: the line written
statistics(mc) ==
    IF errored(mc)
    THEN "Compilation aborted due to "
         \o (CASE count(mc, "Error") = 1 -> "an error"
               [] OTHER -> to_string(count(mc, "Error")) \o " errors")
    ELSE "Compilation finished successfully "
         \o (CASE count(mc, "Warning") = 0 -> "without warnings"
               [] count(mc, "Warning") = 1 -> "with a warning"
               [] OTHER -> "with " \o to_string(count(mc, "Warning")) \o " warnings")

\* MessageLevel::name
level_name(level) ==
    CASE level = "Error" -> "error" [] level = "Warning" -> "warning" [] OTHER -> "info"

\* Message::write: the description line of a message
message(level) == level_name(level) \o ": "

NoReturn == [none |-> TRUE]

idleDiag ==
    /\ message_count = EmptyMap /\ writer = <<>> /\ calls = <<>> /\ returned = NoReturn

\* Diagnostics::new
InitDiag ==
    /\ message_count = EmptyMap
    /\ writer = <<>>
    /\ calls = <<>>
    /\ returned = NoReturn

\* Diagnostics::emit, and error, warning, info, which call it
Diagnostics_emit(level) ==
    /\ Len(calls) < MaxCalls
    /\ message_count' = increment_level_count(message_count, level)
    /\ writer' = Append(writer, message(level))
    /\ calls' = Append(calls, [fn |-> "emit", level |-> level])
    /\ returned' = NoReturn

Diagnostics_errored ==
    /\ Len(calls) < MaxCalls
    /\ returned' = [value |-> errored(message_count)]
    /\ calls' = Append(calls, [fn |-> "errored", level |-> ""])
    /\ UNCHANGED <<message_count, writer>>

Diagnostics_count(level) ==
    /\ Len(calls) < MaxCalls
    /\ returned' = [value |-> count(message_count, level)]
    /\ calls' = Append(calls, [fn |-> "count", level |-> level])
    /\ UNCHANGED <<message_count, writer>>

Diagnostics_write_statistics ==
    /\ Len(calls) < MaxCalls
    /\ writer' = Append(writer, statistics(message_count))
    /\ returned' = NoReturn
    /\ calls' = Append(calls, [fn |-> "write_statistics", level |-> ""])
    /\ UNCHANGED message_count


----------------------------------------------------------------------------
(* PositionIterator.  A Position is the index of a character of the file,  *)
(* 0 stands for None; a Span is the pair of its first and last position.   *)
(* A call returns None, a Span, a bool, or panics.                         *)

MaxText == 3

MaxWanted == 2

MaxPeek == 4

\* usize::MAX, the value of 0 - 1 when overflow checks are off; as far as
\* an iterator over a file is concerned any number beyond the file length
UsizeMax == 2147483647

Chars == {"a", "b"}

\* the sequences over S of length at most n
SeqsUpTo(S, n) == UNION { [1..k -> S] : k \in 0..n }

None == [kind |-> "None"]

\* Span::new
Span(start, end) == [kind |-> "Span", start |-> start, end |-> end]

Bool(b) == [kind |-> "bool", value |-> b]

Panicked(msg) == [kind |-> "panic", msg |-> msg]

\* Span::as_str
as_str(t, span) == SubSeq(t, span.start, span.end)

\* Position::next: the position of the next character, None at the last one
Position_next(t, pos) == IF pos < Len(t) THEN pos + 1 ELSE 0

\* Iterator::take(n).last() on a clone of the iterator: the last of the
\* next n positions, acc when there is none
RECURSIVE take_last(_, _, _, _)
take_last(t, pos, n, acc) ==
    IF n = 0 \/ pos = 0 THEN acc
    ELSE take_last(t, Position_next(t, pos), n - 1, pos)

\* Iterator::nth(k) on a clone of the iterator
RECURSIVE nth(_, _, _)
nth(t, pos, k) ==
    IF pos = 0 THEN 0
    ELSE IF k = 0 THEN pos
    ELSE nth(t, Position_next(t, pos), k - 1)

\* n - 1 on usize
sub_one(n, b) ==
    IF n > 0 THEN [ok |-> TRUE, value |-> n - 1]
    ELSE IF b = "debug" THEN [ok |-> FALSE, value |-> 0]
    ELSE [ok |-> TRUE, value |-> UsizeMax]

\* debug_assert!(n >= 1)
debug_assert_fails(n, b) == b = "debug" /\ ~(n >= 1)

\* peek_at_most taking one position more
peek_at_most_one_more(t, pos, n, b) ==
    IF debug_assert_fails(n, b) THEN Panicked("assertion failed: n >= 1")
    ELSE IF pos = 0 THEN None
    ELSE LET span_end == take_last(t, pos, n + 1, 0)
         IN  IF span_end = 0
             THEN Panicked("called Option::unwrap() on a None value")
             ELSE Span(pos, span_end)

\* PositionIterator::peek_at_most, the same in both versions
peek_at_most(t, pos, n, b) ==
    IF debug_assert_fails(n, b) THEN Panicked("assertion failed: n >= 1")
    ELSE IF pos = 0 THEN None
    ELSE LET span_end == take_last(t, pos, n, 0)
         IN  IF span_end = 0
             THEN Panicked("called Option::unwrap() on a None value")
             ELSE Span(pos, span_end)

\* PositionIterator::peek_exactly of asciifile/src/iter.rs
peek_exactly_old(t, pos, n, b) ==
    LET span == peek_at_most(t, pos, n, b)
    IN  CASE span.kind = "panic" -> span
          [] span.kind = "None" -> None
          [] span.kind = "Span" /\ Len(as_str(t, span)) < n -> None
          [] OTHER -> span

\* peek_exactly of compiler-lib with nth(n)
peek_exactly_new_nth_n(t, pos, n, b) ==
    IF debug_assert_fails(n, b) THEN Panicked("assertion failed: n >= 1")
    ELSE LET span_end == nth(t, pos, n)
         IN  IF pos # 0 /\ span_end # 0 THEN Span(pos, span_end) ELSE None

\* PositionIterator::peek_exactly of compiler-lib/src/asciifile/iter.rs
peek_exactly_new(t, pos, n, b) ==
    IF debug_assert_fails(n, b) THEN Panicked("assertion failed: n >= 1")
    ELSE IF ~sub_one(n, b).ok THEN Panicked("attempt to subtract with overflow")
    ELSE LET span_end == nth(t, pos, sub_one(n, b).value)
         IN  IF pos # 0 /\ span_end # 0 THEN Span(pos, span_end) ELSE None

peek_exactly(v, t, pos, n, b) ==
    IF v = "old" THEN peek_exactly_old(t, pos, n, b) ELSE peek_exactly_new(t, pos, n, b)

\* PositionIterator::matches, the same in both versions
matches(v, t, pos, wanted, b) ==
    LET span == peek_exactly(v, t, pos, Len(wanted), b)
    IN  CASE span.kind = "panic" -> span
          [] span.kind = "None" -> Bool(wanted = <<>>)
          [] OTHER -> Bool(as_str(t, span) = wanted)

NoCall == [fn |-> "", n |-> 0, wanted |-> <<>>, at |-> 0, ret |-> None]

idleIter ==
    /\ iter_version = "old" /\ build = "debug" /\ text = <<>>
    /\ position_to_emit = 0 /\ peeked = NoCall

\* PositionIterator::new on the first position of a file
InitIter ==
    /\ iter_version \in {"old", "new"}
    /\ build \in {"debug", "release"}
    /\ text \in SeqsUpTo(Chars, MaxText)
    /\ position_to_emit = IF text = <<>> THEN 0 ELSE 1
    /\ peeked = NoCall

\* the process has not panicked
iterating == peeked.ret.kind # "panic"

\* Iterator::next
PositionIterator_next ==
    /\ iterating
    /\ position_to_emit # 0
    /\ position_to_emit' = Position_next(text, position_to_emit)
    /\ peeked' = [fn |-> "next", n |-> 0, wanted |-> <<>>, at |-> position_to_emit,
                  ret |-> [kind |-> "Position", pos |-> position_to_emit]]
    /\ UNCHANGED <<iter_version, build, text>>

PositionIterator_peek_exactly(n) ==
    /\ iterating
    /\ peeked' = [fn |-> "peek_exactly", n |-> n, wanted |-> <<>>, at |-> position_to_emit,
                  ret |-> peek_exactly(iter_version, text, position_to_emit, n, build)]
    /\ UNCHANGED <<iter_version, build, text, position_to_emit>>

PositionIterator_peek_at_most(n) ==
    /\ iterating
    /\ peeked' = [fn |-> "peek_at_most", n |-> n, wanted |-> <<>>, at |-> position_to_emit,
                  ret |-> peek_at_most(text, position_to_emit, n, build)]
    /\ UNCHANGED <<iter_version, build, text, position_to_emit>>

PositionIterator_matches(wanted) ==
    /\ iterating
    /\ peeked' = [fn |-> "matches", n |-> Len(wanted), wanted |-> wanted,
                  at |-> position_to_emit,
                  ret |-> matches(iter_version, text, position_to_emit, wanted, build)]
    /\ UNCHANGED <<iter_version, build, text, position_to_emit>>


----------------------------------------------------------------------------
(* AsciiFile::new.  Byte offsets count from 0; mapping[i + 1] is the byte  *)
(* at offset i.                                                            *)

MaxBytes == 3

ENCODING_ERROR_MAX_CONTEXT_LEN == 180

\* line feed, '#', 'A', DEL, and two bytes that are not ASCII
Bytes == {10, 35, 65, 127, 128, 228}

\* u8::is_ascii with 0x80 taken for ASCII
is_ascii_or_0x80(c) == c <= 128

\* u8::is_ascii
is_ascii(c) == c < 128

\* mapping.iter().position(|c| !c.is_ascii()): the offset of the first such
\* byte, -1 for None
RECURSIVE position_from(_, _)
position_from(m, i) ==
    IF i >= Len(m) THEN -1
    ELSE IF ~is_ascii(m[i + 1]) THEN i
    ELSE position_from(m, i + 1)

\* region.iter().position(|&chr| chr == '\n'), -1 for None
RECURSIVE newline_from(_, _)
newline_from(region, i) ==
    IF i >= Len(region) THEN -1
    ELSE IF region[i + 1] = 10 THEN i
    ELSE newline_from(region, i + 1)

\* AsciiFile::get_line_start_idx
get_line_start_idx(m, byte_offset) ==
    LET region_start == IF byte_offset >= ENCODING_ERROR_MAX_CONTEXT_LEN
                        THEN byte_offset - ENCODING_ERROR_MAX_CONTEXT_LEN
                        ELSE 0
        region == SubSeq(m, region_start + 1, byte_offset)
        pos == newline_from(region, 0)
    IN  IF pos # -1 THEN pos + 1 ELSE region_start

NotCreated == [kind |-> "none"]

\* AsciiFile::new
AsciiFile_new(m) ==
    LET position == position_from(m, 0)
        start_idx == get_line_start_idx(m, position)
    IN  IF position # -1
        THEN IF start_idx > position
             THEN [kind |-> "panic"]
             ELSE [kind |-> "Err", position |-> position,
                   prev |-> SubSeq(m, start_idx + 1, position)]
        ELSE [kind |-> "Ok", mapping |-> m]

\* Deref for AsciiFile: the bytes as str, the characters by their code
deref(af) == [i \in 1..Len(af.mapping) |-> [char |-> af.mapping[i]]]

\* str::as_bytes
as_bytes(str) == [i \in 1..Len(str) |-> str[i].char]

idleCli ==
    /\ mapping = <<>> /\ ascii_file = NotCreated /\ cmd = "" /\ cli_pc = "off"
    /\ lexed = 0 /\ parser_tokens = <<>> /\ stdout = <<>> /\ trace = <<>>
    /\ exit_code = -1

InitAscii ==
    /\ mapping \in SeqsUpTo(Bytes, MaxBytes)
    /\ ascii_file = NotCreated /\ cmd = "" /\ cli_pc = "off"
    /\ lexed = 0 /\ parser_tokens = <<>> /\ stdout = <<>> /\ trace = <<>>
    /\ exit_code = -1

\* a call of AsciiFile::new on the bytes
AsciiFile_new_call ==
    /\ ascii_file = NotCreated
    /\ ascii_file' = AsciiFile_new(mapping)
    /\ UNCHANGED <<mapping, cmd, cli_pc, lexed, parser_tokens, stdout, trace, exit_code>>

----------------------------------------------------------------------------
(* The command line driver.  The lexer yields one lexeme per byte: 'A' is  *)
(* an identifier, a line feed is whitespace, any other ASCII byte is a     *)
(* lexical error.  The parser pulls the lexemes one by one and accepts or  *)
(* rejects each, and the end of the input.                                 *)

MaxSemanticErrors == 2

Cmds == {"--echo", "--lextest", "--parsetest", "--print-ast", "--debug-dumpast",
         "--check", "--lower"}

\* the subcommands that run setup_io!
LexCmds == Cmds \ {"--echo", "--lower"}

\* Lexer::next on one byte
lexeme(b) ==
    CASE b = 65 -> [ok |-> TRUE, token |-> "identifier A"]
      [] b = 10 -> [ok |-> TRUE, token |-> "Whitespace"]
      [] OTHER -> [ok |-> FALSE, token |-> ""]

\* write_token: the lines written for a token
write_token(token) == IF token = "Whitespace" THEN <<>> ELSE <<token>>

\* filter_map over the lexer: the index of the next lexeme that is not
\* whitespace or a comment, 0 at the end of the input
RECURSIVE filter_map(_, _)
filter_map(m, i) ==
    IF i >= Len(m) THEN 0
    ELSE IF lexeme(m[i + 1]).ok /\ lexeme(m[i + 1]).token = "Whitespace"
    THEN filter_map(m, i + 1)
    ELSE i + 1

\* the loop of cmd_lextest going on after an error
lextest_never_stops(mc) == FALSE

\* cmd_lextest: "if context.diagnostics.errored()"
lextest_stops(mc) == errored(mc)

InitCli ==
    /\ mapping \in SeqsUpTo(Bytes, MaxBytes)
    /\ cmd \in Cmds
    /\ ascii_file = NotCreated /\ cli_pc = "main"
    /\ lexed = 0 /\ parser_tokens = <<>> /\ stdout = <<>> /\ trace = <<>>
    /\ exit_code = -1

\* the process exits
exit(code) ==
    /\ exit_code' = code
    /\ cli_pc' = "exited"

\* context.diagnostics.error(..); write_statistics(); exit(1)
abort(kind) ==
    /\ message_count' = increment_level_count(message_count, "Error")
    /\ writer' = writer \o <<message("Error"), statistics(message_count')>>
    /\ trace' = trace \o <<kind, "statistics", "exit">>
    /\ exit(1)

\* run_compiler on --echo: cmd_echo, then main returns
cmd_echo ==
    /\ cli_pc = "main" /\ cmd = "--echo"
    /\ stdout' = Append(stdout, mapping)
    /\ trace' = Append(trace, "exit")
    /\ exit(0)
    /\ UNCHANGED <<mapping, ascii_file, cmd, lexed, parser_tokens, message_count, writer>>

\* run_compiler on --lower: cmd_lower, then main returns
cmd_lower ==
    /\ cli_pc = "main" /\ cmd = "--lower"
    /\ trace' = Append(trace, "exit")
    /\ exit(0)
    /\ UNCHANGED <<mapping, ascii_file, cmd, lexed, parser_tokens, stdout,
                   message_count, writer>>

\* setup_io!: AsciiFile::new on the bytes of the file; an Err is returned
\* to main, which prints it and exits
setup_io ==
    /\ cli_pc = "main" /\ cmd \in LexCmds
    /\ ascii_file' = AsciiFile_new(mapping)
    /\ IF ascii_file'.kind = "Ok"
       THEN /\ cli_pc' = IF cmd = "--lextest" THEN "lexing" ELSE "parsing"
            /\ UNCHANGED <<writer, trace, exit_code>>
       ELSE /\ writer' = Append(writer, "error: cannot decode input file")
            /\ trace' = Append(trace, "exit")
            /\ exit(1)
    /\ UNCHANGED <<mapping, cmd, lexed, parser_tokens, stdout, message_count>>

\* cmd_lextest: one iteration of the loop over the lexer
cmd_lextest_token ==
    /\ cli_pc = "lexing" /\ lexed < Len(mapping)
    /\ lexed' = lexed + 1
    /\ LET token == lexeme(mapping[lexed + 1])
       IN  /\ message_count' = IF token.ok THEN message_count
                               ELSE increment_level_count(message_count, "Error")
           /\ stdout' = IF token.ok THEN stdout \o write_token(token.token) ELSE stdout
           /\ IF lextest_stops(message_count')
              THEN /\ writer' = writer
                                \o (IF token.ok THEN <<>> ELSE <<message("Error")>>)
                                \o <<statistics(message_count')>>
                   /\ trace' = trace
                               \o (IF token.ok THEN <<>> ELSE <<"lexical error">>)
                               \o <<"statistics", "exit">>
                   /\ exit(1)
              ELSE /\ writer' = writer
                                \o (IF token.ok THEN <<>> ELSE <<message("Error")>>)
                   /\ trace' = trace
                               \o (IF token.ok THEN <<>> ELSE <<"lexical error">>)
                   /\ UNCHANGED <<cli_pc, exit_code>>
    /\ UNCHANGED <<mapping, ascii_file, cmd, parser_tokens>>

\* cmd_lextest after the loop: write_eof_token, then main returns
cmd_lextest_eof ==
    /\ cli_pc = "lexing" /\ lexed = Len(mapping)
    /\ stdout' = Append(stdout, "EOF")
    /\ trace' = Append(trace, "exit")
    /\ exit(0)
    /\ UNCHANGED <<mapping, ascii_file, cmd, lexed, parser_tokens, message_count, writer>>

\* parser.parse() in cmd_parsetest, cmd_printast and cmd_check: the parser
\* pulls the next lexeme from unforgiving_lexer and accepts or rejects it,
\* or the end of the input; what follows a successful parse
parser_parse(accepts) ==
    /\ cli_pc = "parsing"
    /\ LET next == filter_map(mapping, lexed)
       IN  IF next # 0 /\ ~lexeme(mapping[next]).ok
           THEN /\ lexed' = next
                /\ abort("lexical error")
                /\ UNCHANGED <<parser_tokens, stdout>>
           ELSE IF next # 0
           THEN /\ lexed' = next
                /\ parser_tokens' = Append(parser_tokens, next)
                /\ IF accepts
                   THEN UNCHANGED <<cli_pc, exit_code, message_count, writer, trace>>
                   ELSE abort("parse error")
                /\ UNCHANGED stdout
           ELSE /\ lexed' = Len(mapping)
                /\ UNCHANGED parser_tokens
                /\ IF ~accepts
                   THEN abort("parse error") /\ UNCHANGED stdout
                   ELSE IF cmd = "--check"
                   THEN /\ cli_pc' = "checking"
                        /\ UNCHANGED <<exit_code, message_count, writer, trace, stdout>>
                   ELSE /\ stdout' = IF cmd = "--parsetest" THEN stdout
                                     ELSE Append(stdout, "AST")
                        /\ trace' = Append(trace, "exit")
                        /\ exit(0)
                        /\ UNCHANGED <<message_count, writer>>
    /\ UNCHANGED <<mapping, ascii_file, cmd>>

\* n calls of Diagnostics::error
RECURSIVE errors(_, _)
errors(mc, n) == IF n = 0 THEN mc ELSE errors(increment_level_count(mc, "Error"), n - 1)

\* cmd_check after the parse: semantics::check reports n errors and returns
\* Err iff it reported one
semantics_check(n) ==
    /\ cli_pc = "checking"
    /\ message_count' = errors(message_count, n)
    /\ IF n > 0
       THEN /\ writer' = writer \o [i \in 1..n |-> message("Error")]
                                \o <<statistics(message_count')>>
            /\ trace' = trace \o <<"semantics">> \o [i \in 1..n |-> "semantic error"]
                              \o <<"statistics", "exit">>
            /\ exit(1)
       ELSE /\ trace' = trace \o <<"semantics", "exit">>
            /\ exit(0)
            /\ UNCHANGED writer
    /\ UNCHANGED <<mapping, ascii_file, cmd, lexed, parser_tokens, stdout>>

----------------------------------------------------------------------------
(* AsciiFile::iter and PositionedChars.  The iterator is the record         *)
(* [curpos, ascii_file, peeked]: ascii_file holds the characters the        *)
(* underlying Chars has not yielded yet, peeked the look-ahead buffer.      *)

MaxChars == 3
MaxPeekN == 3

FileChars == {"a", "b", "\n"}

Position(row, col, byte_offset) == [row |-> row, col |-> col, byte_offset |-> byte_offset]

PositionedChar(pos, c) == [pos |-> pos, chr |-> c]

\* Option: None is NoChar, Some(x) is [some |-> x]
NoChar == [none |-> TRUE]

Some(x) == [some |-> x]

\* asciifile.rs 73-84
AsciiFile_iter(f) ==
    [curpos |-> Position(0, 0, 0), ascii_file |-> f, peeked |-> <<>>]

\* a variant that fills the buffer and then forgets what it held before
peek_multiple_refill(it, n) ==
    LET k == IF n > Len(it.peeked) THEN Min(n - Len(it.peeked), Len(it.ascii_file)) ELSE 0
        buf == IF k > 0 THEN SubSeq(it.ascii_file, 1, k) ELSE it.peeked
    IN  [it  |-> [it EXCEPT !.peeked = buf,
                            !.ascii_file = SubSeq(it.ascii_file, k + 1, Len(it.ascii_file))],
         ret |-> SubSeq(buf, 1, Min(Len(buf), n))]

\* asciifile.rs 153-164: pull characters until the buffer holds n of them
\* or the file ends, and return the first n of the buffer
peek_multiple(it, n) ==
    LET k == IF n > Len(it.peeked) THEN Min(n - Len(it.peeked), Len(it.ascii_file)) ELSE 0
        buf == it.peeked \o SubSeq(it.ascii_file, 1, k)
    IN  [it  |-> [it EXCEPT !.peeked = buf,
                            !.ascii_file = SubSeq(it.ascii_file, k + 1, Len(it.ascii_file))],
         ret |-> SubSeq(buf, 1, Min(Len(buf), n))]

\* asciifile.rs 141-151
try_peek_multiple(it, n) ==
    LET p == peek_multiple(it, n)
    IN  [it |-> p.it, ret |-> IF Len(p.ret) < n THEN NoChar ELSE Some(p.ret)]

\* asciifile.rs 166-168
peek(it) ==
    LET p == peek_multiple(it, 1)
    IN  [it |-> p.it, ret |-> IF p.ret = <<>> THEN NoChar ELSE Some(p.ret[1])]

\* asciifile.rs 170-172
eof_reached(it) ==
    LET p == peek(it) IN [it |-> p.it, ret |-> p.ret = NoChar]

\* asciifile.rs 174-177
current_position(it) == [it |-> it, ret |-> it.curpos]

\* a variant that does not start a new column count after a line feed
next_keeps_col(it) ==
    LET p == peek(it)
    IN  IF p.ret = NoChar THEN [it |-> p.it, ret |-> NoChar]
        ELSE LET c == p.ret.some
                 retpos == p.it.curpos
                 moved == Position(retpos.row, retpos.col + 1, retpos.byte_offset + 1)
                 newpos == IF c = "\n" THEN Position(moved.row + 1, moved.col, moved.byte_offset)
                           ELSE moved
             IN  [it  |-> [p.it EXCEPT !.peeked = Tail(p.it.peeked), !.curpos = newpos],
                  ret |-> Some(PositionedChar(retpos, c))]

\* asciifile.rs 116-135: Iterator::next
PositionedChars_next(it) ==
    LET p == peek(it)
    IN  IF p.ret = NoChar THEN [it |-> p.it, ret |-> NoChar]
        ELSE LET c == p.ret.some
                 retpos == p.it.curpos
                 moved == Position(retpos.row, retpos.col + 1, retpos.byte_offset + 1)
                 newpos == IF c = "\n" THEN Position(moved.row + 1, 0, moved.byte_offset)
                           ELSE moved
             IN  [it  |-> [p.it EXCEPT !.peeked = Tail(p.it.peeked), !.curpos = newpos],
                  ret |-> Some(PositionedChar(retpos, c))]

NoPCall == [op |-> "none"]

idleChars ==
    /\ file = <<>>
    /\ chars = AsciiFile_iter(<<>>)
    /\ yielded = <<>>
    /\ pcall = NoPCall

InitChars ==
    /\ file \in SeqsUpTo(FileChars, MaxChars)
    /\ chars = AsciiFile_iter(file)
    /\ yielded = <<>>
    /\ pcall = NoPCall

\* a call of op with argument n on the iterator: r is [it, ret]
returns(op, n, r) ==
    /\ chars' = r.it
    /\ pcall' = [op |-> op, n |-> n, ret |-> r.ret]
    /\ UNCHANGED file

next_call ==
    LET r == PositionedChars_next(chars)
    IN  /\ returns("next", 0, r)
        /\ yielded' = IF r.ret = NoChar THEN yielded ELSE Append(yielded, r.ret.some)

peek_call == returns("peek", 1, peek(chars)) /\ UNCHANGED yielded

peek_multiple_call(n) ==
    returns("peek_multiple", n, peek_multiple(chars, n)) /\ UNCHANGED yielded

try_peek_multiple_call(n) ==
    returns("try_peek_multiple", n, try_peek_multiple(chars, n)) /\ UNCHANGED yielded

eof_reached_call == returns("eof_reached", 0, eof_reached(chars)) /\ UNCHANGED yielded

current_position_call ==
    returns("current_position", 0, current_position(chars)) /\ UNCHANGED yielded

----------------------------------------------------------------------------
(* The lextest writer.  A TokenKind is [kind, data]; the output is the      *)
(* sequence of the characters written, a line feed is "\n".                 *)

MaxTokens == 3

TokenKinds ==
    { [kind |-> "Whitespace", data |-> <<>>],
      [kind |-> "Comment", data |-> <<"c", "\n", "d">>],
      [kind |-> "Identifier", data |-> <<"x">>],
      [kind |-> "IntegerLiteral", data |-> <<"4", "2">>],
      [kind |-> "Keyword", data |-> <<"i", "f">>],
      [kind |-> "Operator", data |-> <<"&">>] }

\* Display of TokenKind: keywords and operators by their spelling,
\* identifiers and integer literals behind their prefix
TokenKind_fmt(token) ==
    CASE token.kind = "Identifier" -> <<"i", "d", "e", "n", "t", "i", "f", "i", "e", "r", " ">> \o token.data
      [] token.kind = "IntegerLiteral" -> <<"i", "n", "t", "e", "g", "e", "r", " ", "l", "i", "t", "e", "r", "a", "l", " ">> \o token.data
      [] token.kind \in {"Keyword", "Operator"} -> token.data

\* writeln!(out, "{}", x)
writeln(o, x) == o \o x \o <<"\n">>

\* a writer that ends a line for a comment as well
write_token_with_comments(o, token) ==
    IF token.kind = "Whitespace" THEN o
    ELSE IF token.kind = "Comment" THEN writeln(o, <<>>)
    ELSE writeln(o, TokenKind_fmt(token))

\* main.rs 371-379
write_token_kind(o, token) ==
    IF token.kind \in {"Whitespace", "Comment"} THEN o
    ELSE writeln(o, TokenKind_fmt(token))

\* main.rs 381-384
write_eof_token(o) == writeln(o, <<"E", "O", "F">>)

idleLex ==
    /\ tokens = <<>> /\ written = 0 /\ out = <<>> /\ eof_written = FALSE

InitLex ==
    /\ tokens \in SeqsUpTo(TokenKinds, MaxTokens)
    /\ written = 0 /\ out = <<>> /\ eof_written = FALSE

\* one turn of the loop over the tokens
write_token_call ==
    /\ written < Len(tokens)
    /\ written' = written + 1
    /\ out' = write_token_kind(out, tokens[written + 1])
    /\ UNCHANGED <<tokens, eof_written>>

\* after the loop
write_eof_token_call ==
    /\ written = Len(tokens) /\ ~eof_written
    /\ out' = write_eof_token(out)
    /\ eof_written' = TRUE
    /\ UNCHANGED <<tokens, written>>

----------------------------------------------------------------------------
(* BlockGraph::iter_blocks on any block graph.  The blocks are 1..n, the    *)
(* head is block 1, block_succs[b] is the sequence of the outgoing edges    *)
(* of b.                                                                    *)

MaxBlocks == 3
MaxSuccs == 2

head == 1

\* the block graphs with n blocks and up to MaxSuccs edges per block
BlockGraphs(n) ==
    { [b \in 1..n |-> [i \in 1..Len(t[b]) |-> [src |-> b, tgt |-> t[b][i], idx |-> i]]] :
          t \in [1..n -> SeqsUpTo(1..n, MaxSuccs)] }

idleBBIter ==
    /\ block_succs = <<>> /\ bb_visit_list = <<>> /\ bb_visited = {}
    /\ bb_yielded = <<>> /\ bb_exhausted = FALSE

\* BlockGraph::iter_blocks: the iterator as constructed
InitBBIter ==
    /\ \E n \in 1..MaxBlocks : block_succs \in BlockGraphs(n)
    /\ bb_visit_list = <<head>>
    /\ bb_visited = {}
    /\ bb_yielded = <<>>
    /\ bb_exhausted = FALSE

\* BasicBlockIter::next returning a block
BasicBlockIter_next ==
    /\ bb_visit_list # <<>>
    /\ LET block == Head(bb_visit_list)
           it == iter_push(block_succs[block], 1, Tail(bb_visit_list), bb_visited)
       IN  /\ bb_visit_list' = it[1]
           /\ bb_visited' = it[2]
           /\ bb_yielded' = Append(bb_yielded, block)
    /\ UNCHANGED <<block_succs, bb_exhausted>>

\* BasicBlockIter::next returning None
BasicBlockIter_next_none ==
    /\ bb_visit_list = <<>> /\ ~bb_exhausted
    /\ bb_exhausted' = TRUE
    /\ UNCHANGED <<block_succs, bb_visit_list, bb_visited, bb_yielded>>

----------------------------------------------------------------------------
(* Unreachable code elimination.  A method graph is [conds, projs,          *)
(* keep_alive, bad_blocks]: Cond i ends block i and is                      *)
(* [selector, t, f], its selector a Const ("True", "False") or another      *)
(* node ("Var"), t and f the blocks its Cond_True and Cond_False            *)
(* projections lead to; projs[i] tells what stands in the place of the      *)
(* two projections ("Proj", "Jmp", "Bad", or "Removed") and in which block  *)
(* a Jmp was created; keep_alive are the blocks kept alive and bad_blocks   *)
(* those whose nodes were all marked bad.                                   *)

MaxConds == 2
MaxMethods == 2

UceBlocks == {1, 2, 3}

Conds ==
    { c \in [selector : {"True", "False", "Var"}, t : UceBlocks, f : UceBlocks] : c.t # c.f }

\* the graphs as the construction leaves them
MethodGraphs ==
    { [conds |-> cs,
       projs |-> [i \in 1..Len(cs) |-> [t |-> "Proj", f |-> "Proj", jmp_block |-> 0]],
       keep_alive |-> {}, bad_blocks |-> {}] : cs \in SeqsUpTo(Conds, MaxConds) }

NoGraph == [conds |-> <<>>, projs |-> <<>>, keep_alive |-> {}, bad_blocks |-> {0}]

NoResult == "none"

\* Block::num_cfgpreds: the control flow predecessors of block b
num_cfgpreds(G, b) ==
    Cardinality({ i \in 1..Len(G.conds) : G.conds[i].t = b })
    + Cardinality({ i \in 1..Len(G.conds) : G.conds[i].f = b })

\* "if let Node::Const(c) = cond.selector()"
selector_is_const(G, i) == G.conds[i].selector # "Var"

\* the projection that matches the constant: tarval.is_bool_val(true)
used_proj(G, i) == IF G.conds[i].selector = "True" THEN "t" ELSE "f"

unused_proj(G, i) == IF G.conds[i].selector = "True" THEN "f" ELSE "t"

\* the walk over the graph: the Conds whose selector is a constant
RECURSIVE replacements(_, _)
replacements(G, i) ==
    IF i > Len(G.conds) THEN <<>>
    ELSE (IF selector_is_const(G, i) THEN <<i>> ELSE <<>>) \o replacements(G, i + 1)

\* the walk over the graph: the never-taken blocks with at most one predecessor
RECURSIVE dangling_nontarget_blocks(_, _)
dangling_nontarget_blocks(G, i) ==
    IF i > Len(G.conds) THEN <<>>
    ELSE LET nontarget_block == G.conds[i][unused_proj(G, i)]
         IN  (IF selector_is_const(G, i) /\ num_cfgpreds(G, nontarget_block) <= 1
              THEN <<nontarget_block>> ELSE <<>>)
             \o dangling_nontarget_blocks(G, i + 1)

\* Graph::exchange(used_proj, jmp), mark_as_bad(unused_proj) and
\* target_block.keep_alive() for the Cond i
replace(G, i) ==
    LET u == used_proj(G, i)
    IN  [G EXCEPT !.projs[i] = IF u = "t"
                               THEN [t |-> "Jmp", f |-> "Bad", jmp_block |-> i]
                               ELSE [t |-> "Bad", f |-> "Jmp", jmp_block |-> i],
                  !.keep_alive = @ \cup {G.conds[i][u]}]

RECURSIVE replace_all(_, _)
replace_all(G, rs) ==
    IF rs = <<>> THEN G ELSE replace_all(replace(G, Head(rs)), Tail(rs))

\* mark_as_bad for every out node of the dangling blocks
mark_children_bad(G, ds) == [G EXCEPT !.bad_blocks = @ \cup Range(ds)]

\* Graph::remove_bads: the nodes marked bad leave the graph
remove_bads(G) ==
    [G EXCEPT !.projs = [i \in 1..Len(G.projs) |->
                            [t |-> IF G.projs[i].t = "Bad" THEN "Removed" ELSE G.projs[i].t,
                             f |-> IF G.projs[i].f = "Bad" THEN "Removed" ELSE G.projs[i].f,
                             jmp_block |-> G.projs[i].jmp_block]]]

\* a result that looks at the dangling blocks only
result_of_dangling(rs, ds) == IF Len(ds) > 0 THEN "Changed" ELSE "Unchanged"

\* unreachable_code_elimination.rs 146-150
result_of(rs, ds) == IF Len(rs) + Len(ds) > 0 THEN "Changed" ELSE "Unchanged"

\* UnreachableCodeElimination::run
UnreachableCodeElimination_run(G) ==
    LET rs == replacements(G, 1)
        ds == dangling_nontarget_blocks(G, 1)
    IN  [graph  |-> remove_bads(mark_children_bad(replace_all(G, rs), ds)),
         result |-> result_of(rs, ds)]

\* OptimizationResultCollector::result
collector_result(rs) ==
    IF \E i \in 1..Len(rs) : rs[i] = "Changed" THEN "Changed" ELSE "Unchanged"

idleUce ==
    /\ graph = NoGraph /\ graph_before = NoGraph /\ uce_pc = "off"
    /\ method_result = NoResult /\ results = <<>> /\ program_result = NoResult

\* OptimizationResultCollector::new
InitUce ==
    /\ graph = NoGraph /\ graph_before = NoGraph /\ uce_pc = "methods"
    /\ method_result = NoResult /\ results = <<>> /\ program_result = NoResult

\* the loop over the methods: UnreachableCodeElimination::new(graph)
UnreachableCodeElimination_new(G) ==
    /\ uce_pc = "methods" /\ Len(results) < MaxMethods
    /\ graph' = G /\ graph_before' = G
    /\ uce_pc' = "new"
    /\ UNCHANGED <<method_result, results, program_result>>

\* .run() on the graph of the method
run_method ==
    /\ uce_pc = "new"
    /\ LET r == UnreachableCodeElimination_run(graph)
       IN  /\ graph' = r.graph
           /\ method_result' = r.result
    /\ uce_pc' = "ran"
    /\ UNCHANGED <<graph_before, results, program_result>>

\* collector.push(..); the optimizer of the method is dropped
collector_push ==
    /\ uce_pc = "ran"
    /\ results' = Append(results, method_result)
    /\ graph' = NoGraph /\ graph_before' = NoGraph /\ method_result' = NoResult
    /\ uce_pc' = "methods"
    /\ UNCHANGED program_result

\* after the loop: collector.result()
run_returns ==
    /\ uce_pc = "methods"
    /\ program_result' = collector_result(results)
    /\ uce_pc' = "done"
    /\ UNCHANGED <<graph, graph_before, method_result, results>>

----------------------------------------------------------------------------
(* Function::build_lsa.  An instruction is [src, dst]: its source operands  *)
(* and its destination operand or NoOperand; an operand is "imm" or the     *)
(* name of a variable.  A mention is <<block.num, instr_counter>>.          *)

MaxLsaBlocks == 2
MaxInstrs == 2

NoOperand == "none"

VarIds == {"x", "y"}

Instrs ==
    { [src |-> <<"imm">>, dst |-> "x"],
      [src |-> <<"x">>, dst |-> "y"],
      [src |-> <<"y", "imm">>, dst |-> NoOperand] }

\* the block lists of n blocks, numbered 0..n-1 in some order
PostorderBlocks(n) ==
    { [i \in 1..n |-> [num |-> nums[i], instrs |-> is[i]]] :
          nums \in { p \in [1..n -> 0..(n - 1)] : \A i, j \in 1..n : p[i] = p[j] => i = j },
          is \in [1..n -> SeqsUpTo(Instrs, MaxInstrs)] }

\* the liveness maps over the blocks 0..n-1: a variable has no entry
\* (the empty set here) or is live in some blocks
Liveness(n) == [VarIds -> SUBSET (0..(n - 1))]

\* the operands of an instruction that are pushed to the map, in order
mentioned(instr) ==
    SelectSeq(instr.src, LAMBDA op : op # "imm")
    \o (IF instr.dst = NoOperand THEN <<>> ELSE <<instr.dst>>)

\* the loop over block.instrs: [map, instr_counter]
RECURSIVE number_instrs(_, _, _, _)
number_instrs(block, i, map, instr_counter) ==
    IF i > Len(block.instrs) THEN [map |-> map, instr_counter |-> instr_counter]
    ELSE LET ops == mentioned(block.instrs[i])
             pushed == [v \in VarIds |->
                           map[v] \o [k \in 1..Cardinality({ j \in 1..Len(ops) : ops[j] = v })
                                         |-> <<block.num, instr_counter>>]]
         IN  number_instrs(block, i + 1, pushed, instr_counter + 1)

\* "instr_counter - 1" on usize
sub_one_usize(n, mode) ==
    IF n > 0 THEN [panics |-> FALSE, value |-> n - 1]
    ELSE IF mode = "debug" THEN [panics |-> TRUE, value |-> 0]
    ELSE [panics |-> FALSE, value |-> UsizeMax]

\* the loop over lva.postorder_blocks: [panic, map, block_last_instr]
RECURSIVE number_blocks(_, _, _, _, _, _)
number_blocks(blocks, b, map, instr_counter, block_last_instr, mode) ==
    IF b > Len(blocks)
    THEN [panic |-> "", map |-> map, block_last_instr |-> block_last_instr]
    ELSE LET r == number_instrs(blocks[b], 1, map, instr_counter)
             last_instr == sub_one_usize(r.instr_counter, mode)
         IN  IF last_instr.panics
             THEN [panic |-> "attempt to subtract with overflow", map |-> r.map,
                   block_last_instr |-> block_last_instr]
             ELSE number_blocks(blocks, b + 1, r.map, r.instr_counter,
                                Append(block_last_instr, last_instr.value), mode)

\* blocks.iter().max_by(|a, b| a.num.cmp(&b.num)).unwrap().num
max_num(blocks) == CHOOSE n \in blocks : \A m \in blocks : m <= n

\* the interval of a variable of the map: [panic, start, end]
interval_of(instrs, live, block_last_instr) ==
    LET last_instr == instrs[Len(instrs)]
        last_block_alive == IF live = {} THEN last_instr[1] ELSE max_num(live)
    IN  IF last_block_alive = last_instr[1]
        THEN [panic |-> "", start |-> instrs[1][2], end |-> last_instr[2]]
        ELSE IF last_block_alive >= Len(block_last_instr)
        THEN [panic |-> "index out of bounds", start |-> 0, end |-> 0]
        ELSE [panic |-> "", start |-> instrs[1][2],
              end |-> block_last_instr[last_block_alive + 1]]

\* Function::build_lsa
build_lsa(blocks, live, mode) ==
    LET numbered == number_blocks(blocks, 1, [v \in VarIds |-> <<>>], 0, <<>>, mode)
        vars_in_map == { v \in VarIds : numbered.map[v] # <<>> }
        intervals == [v \in vars_in_map |->
                         interval_of(numbered.map[v], live[v], numbered.block_last_instr)]
    IN  IF numbered.panic # "" THEN [panic |-> numbered.panic]
        ELSE IF \E v \in vars_in_map : intervals[v].panic # ""
        THEN [panic |-> "index out of bounds"]
        ELSE [panic |-> "", block_last_instr |-> numbered.block_last_instr,
              map |-> numbered.map,
              var_live |-> [v \in vars_in_map |->
                               [start |-> intervals[v].start, end |-> intervals[v].end]]]

NotBuilt == [panic |-> "not built"]

idleLsa ==
    /\ postorder_blocks = <<>> /\ liveness = [v \in VarIds |-> {}]
    /\ lsa_build = "debug" /\ lsa = NotBuilt

InitLsa ==
    /\ \E n \in 0..MaxLsaBlocks : postorder_blocks \in PostorderBlocks(n)
    /\ liveness \in Liveness(Len(postorder_blocks))
    /\ lsa_build \in {"debug", "release"}
    /\ lsa = NotBuilt

build_lsa_call ==
    /\ lsa = NotBuilt
    /\ lsa' = build_lsa(postorder_blocks, liveness, lsa_build)
    /\ UNCHANGED <<postorder_blocks, liveness, lsa_build>>

----------------------------------------------------------------------------
(* GenInstrBlock::gen_value_walk_callback for the arithmetic nodes.  A      *)
(* node is [kind, ins]; an input is a Const [const], a parameter            *)
(* projection [param] or a node computed before ([node]).  A value is a     *)
(* number or the term [kind, args] an instruction computes.                 *)

MaxTarval == 1
MaxParams == 2

BinopNodes == {"Add", "Sub", "Mul", "Div", "Mod", "And", "Or"}

UnopNodes == {"Not", "Minus"}

\* the nodes computed before the one visited
ComputedBefore == {"a", "b"}

InputNodes ==
    { [const |-> c] : c \in 0..MaxTarval } \cup { [param |-> i] : i \in 0..(MaxParams - 1) }
    \cup { [node |-> n] : n \in ComputedBefore }

ArithNodes ==
    { [kind |-> k, ins |-> <<l, r>>] : k \in BinopNodes, l \in InputNodes, r \in InputNodes }
    \cup { [kind |-> k, ins |-> <<o>>] : k \in UnopNodes, o \in InputNodes }

Imm(c) == [imm |-> c]

Param(idx) == [param_idx |-> idx]

Slot(s) == [slot |-> s]

\* gen_instr.rs 188-194
gen_operand_jit(comp, n) ==
    IF "const" \in DOMAIN n THEN Imm(n.const)
    ELSE IF "param" \in DOMAIN n THEN Param(n.param)
    ELSE Slot(comp[n.node])

\* gen_instr.rs 177-186: block.new_private_slot and mark_computed; the new
\* slot is numbered after the slots of the block
gen_dst_slot(comp) == Cardinality(DOMAIN comp)

\* gen_binop_with_dst!
gen_binop(comp, n) ==
    LET src1 == gen_operand_jit(comp, n.ins[1])
        src2 == gen_operand_jit(comp, n.ins[2])
        d == gen_dst_slot(comp)
    IN  IF n.kind = "Div" THEN [op |-> "Div", src1 |-> src1, src2 |-> src2, dst |-> d]
        ELSE IF n.kind = "Mod" THEN [op |-> "Mod", src1 |-> src1, src2 |-> src2, dst |-> d]
        ELSE [op |-> "Binop", kind |-> n.kind, src1 |-> src1, src2 |-> src2, dst |-> d]

\* gen_instr.rs 263-270: the arm Node::Not(_) | Node::Minus(_)
gen_unop(comp, n) ==
    [op |-> "Unop", kind |-> IF n.kind = "Not" THEN "Not" ELSE "Neg",
     operand |-> Slot(gen_dst_slot(comp))]

idleGen ==
    /\ gen_node = [kind |-> "Start", ins |-> <<>>] /\ computed = <<>>
    /\ code_body = <<>> /\ slot_values = <<>> /\ param_values = <<>> /\ gen_pc = "off"

\* the nodes a and b were computed into the slots 0 and 1
InitGen ==
    /\ gen_node \in ArithNodes
    /\ computed = [n \in ComputedBefore |-> IF n = "a" THEN 0 ELSE 1]
    /\ code_body = <<>>
    /\ slot_values \in [0..1 -> 0..MaxTarval]
    /\ param_values \in [0..(MaxParams - 1) -> 0..MaxTarval]
    /\ gen_pc = "visit"

\* gen_value_walk_callback for a node that is not computed yet
gen_value_walk_callback ==
    /\ gen_pc = "visit"
    /\ code_body' = Append(code_body,
                           IF gen_node.kind \in UnopNodes THEN gen_unop(computed, gen_node)
                           ELSE gen_binop(computed, gen_node))
    /\ computed' = [n \in DOMAIN computed \cup {"node"} |->
                       IF n = "node" THEN gen_dst_slot(computed) ELSE computed[n]]
    /\ gen_pc' = "generated"
    /\ UNCHANGED <<gen_node, slot_values, param_values>>

\* the value of an operand when the body runs
operand_value(o, vals, u) ==
    IF "imm" \in DOMAIN o THEN o.imm
    ELSE IF "param_idx" \in DOMAIN o THEN param_values[o.param_idx]
    ELSE IF o.slot \in DOMAIN vals THEN vals[o.slot] ELSE u

\* the instruction runs: a Binop, Div or Mod writes dst, a Unop works on
\* its operand in place; a slot that was never written holds any value
run_body ==
    /\ gen_pc = "generated"
    /\ \E u \in 0..MaxTarval :
           LET instr == code_body[Len(code_body)]
               target == IF instr.op = "Unop" THEN instr.operand.slot ELSE instr.dst
               value == IF instr.op = "Unop"
                        THEN [kind |-> instr.kind,
                              args |-> <<operand_value(instr.operand, slot_values, u)>>]
                        ELSE [kind |-> IF instr.op = "Binop" THEN instr.kind ELSE instr.op,
                              args |-> <<operand_value(instr.src1, slot_values, u),
                                         operand_value(instr.src2, slot_values, u)>>]
           IN  slot_values' = [s \in DOMAIN slot_values \cup {target} |->
                                  IF s = target THEN value ELSE slot_values[s]]
    /\ gen_pc' = "executed"
    /\ UNCHANGED <<gen_node, computed, code_body, param_values>>

----------------------------------------------------------------------------
(* Specifications: one per component; the other components stay idle. *)

lirOff ==
    /\ g = GraphPassThrough /\ pc = "off" /\ idleLir
    /\ succs = [b \in Blocks(g) |-> <<>>]
    /\ regs = [b \in Blocks(g) |-> <<>>]
    /\ trans = [e \in Edges(g) |-> <<>>]
    /\ copy_in = [b \in Blocks(g) |-> <<>>]
    /\ copy_out = [b \in Blocks(g) |-> <<>>]

notChars == <<lirVars, amdVars, tcVars, diagVars, iterVars, cliVars, lexVars, bbiterVars, uceVars, lsaVars, genVars>>

charsOnly == lirOff /\ idleAmd /\ idleTc /\ idleDiag /\ idleIter /\ idleCli /\ idleLex /\ idleBBIter /\ idleUce /\ idleLsa /\ idleGen

notLex == <<lirVars, amdVars, tcVars, diagVars, iterVars, cliVars, pcharVars, bbiterVars, uceVars, lsaVars, genVars>>

lexOnly == lirOff /\ idleAmd /\ idleTc /\ idleDiag /\ idleIter /\ idleCli /\ idleChars /\ idleBBIter /\ idleUce /\ idleLsa /\ idleGen

notBBIter == <<lirVars, amdVars, tcVars, diagVars, iterVars, cliVars, pcharVars, lexVars, uceVars, lsaVars, genVars>>

bbiterOnly == lirOff /\ idleAmd /\ idleTc /\ idleDiag /\ idleIter /\ idleCli /\ idleChars /\ idleLex /\ idleUce /\ idleLsa /\ idleGen

notUce == <<lirVars, amdVars, tcVars, diagVars, iterVars, cliVars, pcharVars, lexVars, bbiterVars, lsaVars, genVars>>

uceOnly == lirOff /\ idleAmd /\ idleTc /\ idleDiag /\ idleIter /\ idleCli /\ idleChars /\ idleLex /\ idleBBIter /\ idleLsa /\ idleGen

notLsa == <<lirVars, amdVars, tcVars, diagVars, iterVars, cliVars, pcharVars, lexVars, bbiterVars, uceVars, genVars>>

lsaOnly == lirOff /\ idleAmd /\ idleTc /\ idleDiag /\ idleIter /\ idleCli /\ idleChars /\ idleLex /\ idleBBIter /\ idleUce /\ idleGen

notGen == <<lirVars, amdVars, tcVars, diagVars, iterVars, cliVars, pcharVars, lexVars, bbiterVars, uceVars, lsaVars>>

genOnly == lirOff /\ idleAmd /\ idleTc /\ idleDiag /\ idleIter /\ idleCli /\ idleChars /\ idleLex /\ idleBBIter /\ idleUce /\ idleLsa

idleLater == idleChars /\ idleLex /\ idleBBIter /\ idleUce /\ idleLsa /\ idleGen

idleRest == idleDiag /\ idleIter /\ idleCli /\ idleLater

NextLir ==
    \/ (\E b \in Blocks(g) : skeleton_visit(b)) /\ UNCHANGED <<amdVars, tcVars, restVars>>
    \/ (skeleton_leave) /\ UNCHANGED <<amdVars, tcVars, restVars>>
    \/ (construct_flows_block) /\ UNCHANGED <<amdVars, tcVars, restVars>>
    \/ (\E n \in Nodes(g) : construct_flows_node(n)) /\ UNCHANGED <<amdVars, tcVars, restVars>>
    \/ (new_terminating_slot) /\ UNCHANGED <<amdVars, tcVars, restVars>>
    \/ (new_slot) /\ UNCHANGED <<amdVars, tcVars, restVars>>
    \/ (new_slot_preds) /\ UNCHANGED <<amdVars, tcVars, restVars>>
    \/ (get_multislot) /\ UNCHANGED <<amdVars, tcVars, restVars>>
    \/ (new_multislot_from_phi) /\ UNCHANGED <<amdVars, tcVars, restVars>>
    \/ (add_incoming_value_flow) /\ UNCHANGED <<amdVars, tcVars, restVars>>
    \/ (push_transition) /\ UNCHANGED <<amdVars, tcVars, restVars>>
    \/ (iter_blocks) /\ UNCHANGED <<amdVars, tcVars, restVars>>
    \/ (gen) /\ UNCHANGED <<amdVars, tcVars, restVars>>
    \/ (gen_instrs_done) /\ UNCHANGED <<amdVars, tcVars, restVars>>

InitLowering == InitLir /\ idleAmd /\ idleTc /\ idleRest

SpecLir == InitLowering /\ [][NextLir]_vars

NextAmd ==
    \/ FunctionCall_new /\ UNCHANGED <<lirVars, tcVars, restVars>>
    \/ save_callee_save_regs /\ UNCHANGED <<lirVars, tcVars, restVars>>
    \/ run_function /\ UNCHANGED <<lirVars, tcVars, restVars>>
    \/ run_call /\ UNCHANGED <<lirVars, tcVars, restVars>>
    \/ exec_pushq /\ UNCHANGED <<lirVars, tcVars, restVars>>
    \/ exec_popq /\ UNCHANGED <<lirVars, tcVars, restVars>>
    \/ exec_body /\ UNCHANGED <<lirVars, tcVars, restVars>>
    \/ exec_done /\ UNCHANGED <<lirVars, tcVars, restVars>>

InitFunction == lirOff /\ InitAmd /\ idleTc /\ idleRest

SpecAmd == InitFunction /\ [][NextAmd]_vars

NextTc ==
    \/ \E e \in Exprs \cup {NoExpr} : check_type_stmt_return(e) /\ UNCHANGED <<lirVars, amdVars, restVars>>
    \/ \E e \in Exprs : check_type_stmt_expression(e) /\ UNCHANGED <<lirVars, amdVars, restVars>>

InitChecker == lirOff /\ idleAmd /\ InitTc /\ idleRest

SpecTc == InitChecker /\ [][NextTc]_vars

NextBody ==
    \/ check_type_block_enter /\ UNCHANGED <<lirVars, amdVars, restVars>>
    \/ check_type_block_leave /\ UNCHANGED <<lirVars, amdVars, restVars>>
    \/ check_type_stmt_empty /\ UNCHANGED <<lirVars, amdVars, restVars>>
    \/ \E n \in Names, init \in BodyExprs \cup {NoExpr} :
           check_type_stmt_local(n, init) /\ UNCHANGED <<lirVars, amdVars, restVars>>
    \/ \E c \in BodyExprs, els \in BOOLEAN :
           check_type_stmt_if(c, els) /\ UNCHANGED <<lirVars, amdVars, restVars>>
    \/ \E c \in BodyExprs : check_type_stmt_while(c) /\ UNCHANGED <<lirVars, amdVars, restVars>>

InitBodyChecker == lirOff /\ idleAmd /\ InitBody /\ idleRest

SpecBody == InitBodyChecker /\ [][NextBody]_vars

notDiag == <<lirVars, amdVars, tcVars, iterVars, cliVars, laterVars>>

NextDiag ==
    \/ \E level \in MessageLevel : Diagnostics_emit(level) /\ UNCHANGED notDiag
    \/ Diagnostics_errored /\ UNCHANGED notDiag
    \/ \E level \in MessageLevel : Diagnostics_count(level) /\ UNCHANGED notDiag
    \/ Diagnostics_write_statistics /\ UNCHANGED notDiag

InitDiagnostics == lirOff /\ idleAmd /\ idleTc /\ InitDiag /\ idleIter /\ idleCli /\ idleLater

SpecDiag == InitDiagnostics /\ [][NextDiag]_vars

notIter == <<lirVars, amdVars, tcVars, diagVars, cliVars, laterVars>>

NextIter ==
    \/ PositionIterator_next /\ UNCHANGED notIter
    \/ \E n \in 1..MaxPeek : PositionIterator_peek_exactly(n) /\ UNCHANGED notIter
    \/ \E n \in 1..MaxPeek : PositionIterator_peek_at_most(n) /\ UNCHANGED notIter
    \/ \E wanted \in SeqsUpTo(Chars, MaxWanted) :
           PositionIterator_matches(wanted) /\ UNCHANGED notIter

InitIterator == lirOff /\ idleAmd /\ idleTc /\ idleDiag /\ InitIter /\ idleCli /\ idleLater

SpecIter == InitIterator /\ [][NextIter]_vars

notCli == <<lirVars, amdVars, tcVars, diagVars, iterVars, laterVars>>

NextAscii == AsciiFile_new_call /\ UNCHANGED notCli

InitAsciiFile == lirOff /\ idleAmd /\ idleTc /\ idleDiag /\ idleIter /\ InitAscii /\ idleLater

SpecAscii == InitAsciiFile /\ [][NextAscii]_vars

notDriver == <<lirVars, amdVars, tcVars, iterVars, calls, returned, laterVars>>

NextCli ==
    \/ cmd_echo /\ UNCHANGED notDriver
    \/ cmd_lower /\ UNCHANGED notDriver
    \/ setup_io /\ UNCHANGED notDriver
    \/ cmd_lextest_token /\ UNCHANGED notDriver
    \/ cmd_lextest_eof /\ UNCHANGED notDriver
    \/ \E accepts \in BOOLEAN : parser_parse(accepts) /\ UNCHANGED notDriver
    \/ \E n \in 0..MaxSemanticErrors : semantics_check(n) /\ UNCHANGED notDriver

InitDriver == lirOff /\ idleAmd /\ idleTc /\ idleDiag /\ idleIter /\ InitCli /\ idleLater

SpecCli == InitDriver /\ [][NextCli]_vars

NextChars ==
    \/ next_call /\ UNCHANGED notChars
    \/ peek_call /\ UNCHANGED notChars
    \/ (\E n \in 0..MaxPeekN : peek_multiple_call(n)) /\ UNCHANGED notChars
    \/ (\E n \in 0..MaxPeekN : try_peek_multiple_call(n)) /\ UNCHANGED notChars
    \/ eof_reached_call /\ UNCHANGED notChars
    \/ current_position_call /\ UNCHANGED notChars

InitPositionedChars == charsOnly /\ InitChars

SpecChars == InitPositionedChars /\ [][NextChars]_vars

NextLex ==
    \/ write_token_call /\ UNCHANGED notLex
    \/ write_eof_token_call /\ UNCHANGED notLex

InitLextest == lexOnly /\ InitLex

SpecLex == InitLextest /\ [][NextLex]_vars

NextBBIter ==
    \/ BasicBlockIter_next /\ UNCHANGED notBBIter
    \/ BasicBlockIter_next_none /\ UNCHANGED notBBIter

InitBlockIter == bbiterOnly /\ InitBBIter

SpecBBIter == InitBlockIter /\ [][NextBBIter]_vars

NextUce ==
    \/ (\E G \in MethodGraphs : UnreachableCodeElimination_new(G)) /\ UNCHANGED notUce
    \/ run_method /\ UNCHANGED notUce
    \/ collector_push /\ UNCHANGED notUce
    \/ run_returns /\ UNCHANGED notUce

InitUnreachableCodeElimination == uceOnly /\ InitUce

SpecUce == InitUnreachableCodeElimination /\ [][NextUce]_vars

NextLsa == build_lsa_call /\ UNCHANGED notLsa

InitBuildLsa == lsaOnly /\ InitLsa

SpecLsa == InitBuildLsa /\ [][NextLsa]_vars

NextGen ==
    \/ gen_value_walk_callback /\ UNCHANGED notGen
    \/ run_body /\ UNCHANGED notGen

InitGenInstr == genOnly /\ InitGen

SpecGen == InitGenInstr /\ [][NextGen]_vars

----------------------------------------------------------------------------
(* Properties of the lowering *)

\* construct_flows has returned
FlowsConstructed ==
    \/ pc \in {"flows_done", "gen", "done"}
    \/ pc = "panic" /\ panic = "possible lost-copy detected"

FlowIdx(e) == 1..Len(trans[e])

firms_of(ms) == { ms.slots[k].firm : k \in 1..Len(ms.slots) }

\* C1: for every edge and every register transition on it,
\* must_copy_in_source and must_copy_in_target are never both true, and the
\* "possible lost-copy detected" assertion of GenInstrBlock::gen never fails.
C1_NoLostCopy ==
    /\ panic # "possible lost-copy detected"
    /\ FlowsConstructed =>
           \A e \in Edges(g) : \A k \in FlowIdx(e) :
               ~(must_copy_in_source(g, trans, e, k) /\ must_copy_in_target(g, trans, e, k))

\* C2: after construct_flows, for every transition (source, target) of every edge:
\* target is a slot of the multislot numbered target.num in the target block, source is
\* the multislot numbered source.num in the source block, and the Firm value of
\* source is the Firm value of target, or one side is a phi multislot that has the
\* other side's value as an input.
C2_TransitionsWellFormed ==
    FlowsConstructed =>
        \A e \in Edges(g) : \A k \in FlowIdx(e) :
            LET source == trans[e][k][1]
                target == trans[e][k][2]
            IN  /\ target.num >= 0 /\ target.num < Len(regs[e.tgt])
                /\ target.alloc = e.tgt
                /\ target \in Range(regs[e.tgt][target.num + 1].slots)
                /\ source.b = e.src
                /\ source.num >= 0 /\ source.num < Len(regs[e.src])
                /\ regs[e.src][source.num + 1] = source
                /\ multislot_num(source) = source.num
                /\ \/ multislot_firm(source) = target.firm
                   \/ is_multi(source) /\ target.firm \in firms_of(source)
                   \/ /\ is_multi(regs[e.tgt][target.num + 1])
                      /\ multislot_firm(source) \in firms_of(regs[e.tgt][target.num + 1])

\* the lowering of "while (c) x = y;" is complete: the phi multislot of the
\* header is the source of the flow of y into the body, phi slots are targets
C2_Witness ==
    /\ pc = "done"
    /\ \E e \in Edges(g) : \E k \in FlowIdx(e) :
           /\ is_multi(trans[e][k][1])
           /\ multislot_firm(trans[e][k][1]) # trans[e][k][2].firm
    /\ \E e \in Edges(g) : \E k \in FlowIdx(e) :
           is_multi(regs[e.tgt][trans[e][k][2].num + 1])
    /\ \E e \in Edges(g) : \E k \in FlowIdx(e) :
           ~is_multi(trans[e][k][1]) /\ trans[e][k][1].slots[1].orig # e.src

rematerializable(v) == is_const(g, v) \/ is_address(g, v)

\* C3 as stated: after construct_flows no register transition of any edge
\* carries a Const or an Address node, inputs of phi nodes included.
C3_NoConstFlows ==
    FlowsConstructed =>
        \A e \in Edges(g) : \A k \in FlowIdx(e) : ~rematerializable(trans[e][k][2].firm)

\* C3 amended: a register transition carries a Const or an Address node only
\* into a slot of a phi multislot, as the input that the phi takes from the
\* source block of the edge; a Const or an Address that a block uses directly
\* is never flown.
C3_ConstFlowsOnlyIntoPhi ==
    \A e \in Edges(g) : \A k \in FlowIdx(e) :
        LET target == trans[e][k][2]
            ms == regs[e.tgt][target.num + 1]
        IN  rematerializable(target.firm) =>
                /\ is_multi(ms)
                /\ target \in Range(ms.slots)
                /\ block_of(g, ms.phi) = e.tgt
                /\ \E i \in 1..Len(g.preds[e.tgt]) :
                       g.preds[e.tgt][i] = e.src /\ g.nodes[ms.phi].ins[i] = target.firm

\* the lowering is complete, a constant was flown into a phi slot, and a
\* block other than the start block holds a constant it uses directly
C3_Witness ==
    /\ pc = "done"
    /\ \E e \in Edges(g) : \E k \in FlowIdx(e) : rematerializable(trans[e][k][2].firm)
    /\ \E b \in Blocks(g) : \E i \in 1..Len(regs[b]) :
           /\ b # g.start
           /\ ~is_multi(regs[b][i])
           /\ rematerializable(regs[b][i].slots[1].firm)
           /\ \A k \in FlowIdx(Edge(g, b, 1)) :
                  trans[Edge(g, b, 1)][k][2].firm # regs[b][i].slots[1].firm

\* C4: every edge has at most one register transition per SSA value, and the
\* assert_eq on the slot numbers in add_incoming_value_flow holds whenever a
\* value already flows on the edge.
C4_OneFlowPerValue ==
    /\ panic # "assert_eq: target.num == target_slot.num"
    /\ \A e \in Edges(g) : \A j \in FlowIdx(e) : \A k \in FlowIdx(e) :
           trans[e][j][2].firm = trans[e][k][2].firm => j = k

\* C5: at every point of the slot allocation, for every block b and every
\* index i of b.regs, num() of the multislot at i is i, every value slot in
\* it has number i and is allocated in b, and neither the length assertions
\* of add_possible_value nor the unreachable!() of commit is hit.
C5_DenseSlots ==
    /\ panic \notin {"assert: regs.len() >= num", "assert: regs.len() <= num + 1",
                     "unreachable: commit"}
    /\ \A b \in Blocks(g) : \A i \in 1..Len(regs[b]) :
           /\ num_defined(regs[b][i])
           /\ multislot_num(regs[b][i]) = i - 1
           /\ \A k \in 1..Len(regs[b][i].slots) :
                  /\ regs[b][i].slots[k].num = i - 1
                  /\ regs[b][i].slots[k].alloc = b

----------------------------------------------------------------------------
(* Properties of the amd64 function and call frames *)

pushed_regs(instrs) == [i \in 1..Len(instrs) |-> instrs[i].src.reg]

popped_regs(instrs) == [i \in 1..Len(instrs) |-> instrs[i].dst.reg]

CallBuilt == apc \in {"called", "saved", "panic", "exec_fn", "exec_call", "halt_fn", "halt_call"}

RegsSaved == apc \in {"saved", "exec_fn", "exec_call", "halt_fn", "halt_call"}

\* C6: under the X86_64 calling convention, FunctionCall::new moves argument
\* a_i into the i-th register of [Rdi, Rsi, Rdx, Rcx, R8, R9] for i < 6, then
\* pushes the arguments with i >= 6 from the last one down to a_6; recover is
\* "add 8 * (n - 6) to Rsp" exactly when n > 6; move_res is "move Rax to the
\* destination slot" exactly when the call has a destination.
C6_X86_64_CallSetup ==
    (CallBuilt /\ cconv = "X86_64") =>
        LET n == Len(args)
            arg_reg == <<"Rdi", "Rsi", "Rdx", "Rcx", "R8", "R9">>
        IN  /\ Len(call.setup) = n
            /\ \A i \in 0..(n - 1) :
                   IF i < 6
                   THEN call.setup[i + 1] = Movq(LirOperand(args[i + 1]), Reg(arg_reg[i + 1]))
                   ELSE call.setup[6 + (n - i)] = Pushq(LirOperand(args[i + 1]))
            /\ call.recover = IF n > 6 THEN Addq(8 * (n - 6), Reg("Rsp")) ELSE NoInstr
            /\ call.move_res = IF dst # NoDst THEN Movq(Reg("Rax"), LirOperand(dst))
                               ELSE NoInstr

\* a call with eight arguments and a destination was set up: six moves, two
\* pushes, a recover and a move_res
C6_Witness ==
    /\ apc = "called" /\ cconv = "X86_64"
    /\ Len(args) = 8 /\ dst = DstSlot
    /\ call.setup[7].op = "Pushq" /\ call.recover # NoInstr /\ call.move_res # NoInstr

\* C7: restore_regs pops in the reverse order of the pushes of save_regs, and
\* arg_recover in the reverse order of the pushes of arg_save, so that after
\* the save sequence, the code in between and the restore sequence have run
\* on the stack, every saved register holds the value it had before.
C7_RestoreReversesSave ==
    /\ CallBuilt => popped_regs(call.arg_recover) = Reverse(pushed_regs(call.arg_save))
    /\ RegsSaved => popped_regs(restore_regs) = Reverse(pushed_regs(save_regs))
    /\ apc = "halt_fn" => \A r \in Range(pushed_regs(save_regs)) : mreg[r] = InitRegs[r]
    /\ apc = "halt_call" => \A r \in Range(pushed_regs(call.arg_save)) : mreg[r] = InitRegs[r]

\* C8: save_callee_save_regs(n) adds nothing for n <= 9, saves the first
\* n - 9 registers of [Rbx, R12, R13, R14, R15] in this order for
\* 10 <= n <= 14, and panics without adding an instruction for n > 14.
C8_CalleeSaveRegs ==
    LET n == num_regs_required
        callee_save == <<"Rbx", "R12", "R13", "R14", "R15">>
    IN  /\ apc = "panic" => n > 14 /\ save_regs = <<>> /\ restore_regs = <<>>
        /\ RegsSaved =>
               /\ n <= 14
               /\ n <= 9 => save_regs = <<>> /\ restore_regs = <<>>
               /\ n >= 10 =>
                      /\ save_regs = [i \in 1..(n - 9) |-> Pushq(Reg(callee_save[i]))]
                      /\ Len(restore_regs) = n - 9
                      /\ Range(popped_regs(restore_regs)) = Range(pushed_regs(save_regs))

\* twelve registers are required: Rbx, R12 and R13 were saved
C8_Witness ==
    /\ apc = "saved" /\ num_regs_required = 12
    /\ Len(save_regs) = 3

----------------------------------------------------------------------------
(* Properties of the method body type checker *)

emitted == SubSeq(diags, last.from + 1, Len(diags))

IsResolveDiag(d) == d.kind \in {"InvalidReferenceToClass", "CannotLookupVarOrField"}

IsReturnDiag(d) ==
    d.kind \in {"MethodMustReturnSomething", "VoidMethodCannotReturnValue", "InvalidReturnType"}

\* C9: the lookup of a bare identifier is decided by the first stage that
\* matches, in the order local or parameter, field, class name: a local,
\* parameter or field gives its type; a class name gives
\* InvalidReferenceToClass and nothing else; CannotLookupVarOrField is
\* reported only when no stage matched; at most one of the two is reported.
C9_FirstMatchDecides ==
    (tc_version = "old" /\ last.stmt.expr.e = "Var") =>
        LET n == last.stmt.expr.name
            resolve == SelectSeq(emitted, IsResolveDiag)
        IN  /\ Len(resolve) <= 1
            /\ n \in local_scope => last.res = [ok |-> TRUE, ty |-> LocalTy(n)] /\ resolve = <<>>
            /\ (n \notin local_scope /\ n \in fields) =>
                   last.res = [ok |-> TRUE, ty |-> FieldTy(n)] /\ resolve = <<>>
            /\ (n \notin local_scope /\ n \notin fields /\ n \in classes) =>
                   /\ ~last.res.ok
                   /\ resolve = <<Diag("InvalidReferenceToClass", "name", tc_n)>>
            /\ (n \notin local_scope /\ n \notin fields /\ n \notin classes) =>
                   /\ ~last.res.ok
                   /\ resolve = <<Diag("CannotLookupVarOrField", "name", tc_n)>>

----------------------------------------------------------------------------
(* Properties of the statements of a method body *)

\* the scopes opened and not yet left, with the names declared in each,
\* from the calls made so far
RECURSIVE open_blocks(_)
open_blocks(h) ==
    IF h = <<>> THEN <<>>
    ELSE LET s == open_blocks(Front(h))
             e == Last(h)
         IN  CASE e.ev = "enter_scope" -> Append(s, {})
               [] e.ev = "leave_scope" -> Front(s)
               [] OTHER -> [s EXCEPT ![Len(s)] = @ \cup {e.name}]

scope_calls(h, ev) == Cardinality({i \in 1..Len(h) : h[i].ev = ev})

\* the parameters of the method
params == scopes[1]

IsMismatchDiag(d) == d.kind \in {"InvalidType", "InvalidReturnType"}

\* C11: every enter_scope of check_type_block is matched by one leave_scope
\* (the scope depth is the root scope plus the blocks that are open, and is
\* the root scope alone once the method body is left); a local variable
\* declaration reports RedefinitionError at the name iff the name is a
\* parameter or a local declared in a block that is still open; and its
\* initializer, if present, is checked against the declared type whether
\* or not the redefinition was reported.
C11_ScopesAndRedefinition ==
    /\ Len(scopes) = 1 + scope_calls(hist, "enter_scope") - scope_calls(hist, "leave_scope")
    /\ Len(scopes) = 1 + Cardinality({i \in 1..Len(ctl) : ctl[i].kind = "block"})
    /\ ctl = <<>> => Len(scopes) = 1
    /\ (last.stmt.kind = "LocalVariableDeclaration" /\ Last(hist).ev = "define") =>
         LET n == Last(hist).name
             init == last.stmt.expr
             r == get_type_expr(init, tc_n)
             redef == { i \in 1..Len(emitted) : emitted[i].kind = "RedefinitionError" }
             mism == { i \in 1..Len(emitted) : IsMismatchDiag(emitted[i]) }
         IN  /\ last.stmt.name = n
             /\ Cardinality(redef) =
                    IF n \in params \cup UNION Range(open_blocks(Front(hist)))
                    THEN 1 ELSE 0
             /\ \A i \in redef : emitted[i] = Diag("RedefinitionError", "name", tc_n)
             /\ init = NoExpr => mism = {}
             /\ init # NoExpr =>
                  /\ Cardinality(mism) =
                         IF r.ok /\ r.ty # LocalTy(n) THEN 1 ELSE 0
                  /\ \A i \in 1..Len(r.diags) : r.diags[i] \in Range(emitted)

\* a declaration in a nested block of a name declared in the enclosing,
\* still open block reports the redefinition and the mismatch of its
\* initializer; and a name declared in a block that was left is declared
\* again without error
C11_Witness ==
    /\ last.stmt.kind = "LocalVariableDeclaration" /\ Last(hist).ev = "define"
    /\ Len(scopes) = 3
    /\ Last(hist).name \notin params
    /\ Diag("RedefinitionError", "name", tc_n) \in Range(emitted)
    /\ \E i \in 1..Len(emitted) : IsMismatchDiag(emitted[i])

C11_WitnessRedeclared ==
    /\ last.stmt.kind = "LocalVariableDeclaration" /\ Last(hist).ev = "define"
    /\ scope_calls(hist, "leave_scope") = 1
    /\ \E i \in 1..(Len(hist) - 2) :
           hist[i].ev = "define" /\ hist[i].name = Last(hist).name
    /\ emitted = <<>>

\* C12: an If or While reports ConditionMustBeBoolean at its condition iff
\* the type of the condition was determined and is not assignable to
\* Boolean, and its arms are checked next in every case.
C12_ConditionAndBody ==
    last.stmt.kind \in {"If", "While"} =>
        LET r == get_type_expr(last.stmt.expr, tc_n)
            cmb == { i \in 1..Len(emitted) : emitted[i].kind = "ConditionMustBeBoolean" }
        IN  /\ Cardinality(cmb) = IF r.ok /\ r.ty # "Boolean" THEN 1 ELSE 0
            /\ \A i \in cmb : emitted[i] = Diag("ConditionMustBeBoolean", "expr", tc_n)
            /\ ctl # <<>>
            /\ Last(ctl) = BodyFrame(IF last.stmt.kind = "If" /\ last.stmt.els
                                     THEN 2 ELSE 1)

\* the body of an If whose condition is in error reports its own error
C12_Witness ==
    /\ tc_n >= 2
    /\ last.stmt.kind = "LocalVariableDeclaration"
    /\ Diag("ConditionMustBeBoolean", "expr", tc_n - 1) \in Range(diags)
    /\ Diag("RedefinitionError", "name", tc_n) \in Range(emitted)

----------------------------------------------------------------------------
(* Properties of Diagnostics *)

\* the number of emits made with a level
emits(level) ==
    Cardinality({i \in 1..Len(calls) : calls[i].fn = "emit" /\ calls[i].level = level})

\* C15: count(L) is the number of emits made with level L, errored() is
\* true iff an emit had level Error, and errored(), count() and
\* write_statistics() return these values and leave the counters as they are.
C15_Counters ==
    /\ \A level \in MessageLevel : count(message_count, level) = emits(level)
    /\ errored(message_count) <=> emits("Error") > 0
    /\ (calls # <<>> /\ Last(calls).fn = "errored") =>
           returned.value = (emits("Error") > 0)
    /\ (calls # <<>> /\ Last(calls).fn = "count") =>
           returned.value = emits(Last(calls).level)

\* warnings and infos were emitted, no error, and errored() returned false
C15_Witness ==
    /\ calls # <<>> /\ Last(calls).fn = "errored"
    /\ emits("Warning") > 0 /\ emits("Info") > 0 /\ emits("Error") = 0
    /\ returned.value = FALSE

\* C16 as stated: with errors the summary is "Compilation aborted due to
\* N errors", N the number of errors emitted so far.
C16_AbortedNErrors ==
    (calls # <<>> /\ Last(calls).fn = "write_statistics" /\ emits("Error") > 0) =>
        Last(writer) = "Compilation aborted due to " \o to_string(emits("Error")) \o " errors"

\* C16: write_statistics() prints "Compilation aborted due to an error" after
\* one error and "Compilation aborted due to N errors" after N > 1 errors,
\* and otherwise the success line with the number of warnings ("without
\* warnings", "with a warning", "with N warnings"); the line depends on the
\* counters only.
C16_Statistics ==
    (calls # <<>> /\ Last(calls).fn = "write_statistics") =>
        Last(writer) =
            IF emits("Error") = 1 THEN "Compilation aborted due to an error"
            ELSE IF emits("Error") > 1
            THEN "Compilation aborted due to " \o to_string(emits("Error")) \o " errors"
            ELSE IF emits("Warning") = 0
            THEN "Compilation finished successfully without warnings"
            ELSE IF emits("Warning") = 1
            THEN "Compilation finished successfully with a warning"
            ELSE "Compilation finished successfully with "
                 \o to_string(emits("Warning")) \o " warnings"

\* one error was emitted and the summary was written
C16_Witness ==
    /\ calls # <<>> /\ Last(calls).fn = "write_statistics"
    /\ emits("Error") = 1 /\ emits("Warning") > 0
    /\ Last(writer) = "Compilation aborted due to an error"

----------------------------------------------------------------------------
(* Properties of PositionIterator *)

\* the number of characters from the position of the last call to the end
remaining == IF peeked.at = 0 THEN 0 ELSE Len(text) - peeked.at + 1


\* C17: matches(s) returns true exactly when the next |s| characters equal
\* s, in particular matches("") returns true in every state and does not
\* abort; matches does not advance the iterator.
C17_Matches ==
    peeked.fn = "matches" =>
        /\ peeked.ret = Bool(/\ remaining >= Len(peeked.wanted)
                             /\ \A i \in 1..Len(peeked.wanted) :
                                    text[peeked.at + i - 1] = peeked.wanted[i])
        /\ position_to_emit = peeked.at

\* C18: for n >= 1, peek_exactly(n) returns the span of the next n
\* characters when at least n remain and None otherwise, and does not
\* advance the iterator.
C18_PeekExactly ==
    (peeked.fn = "peek_exactly" /\ peeked.n >= 1) =>
        /\ peeked.ret = IF remaining >= peeked.n
                        THEN Span(peeked.at, peeked.at + peeked.n - 1)
                        ELSE None
        /\ peeked.ret.kind = "Span" => Len(as_str(text, peeked.ret)) = peeked.n
        /\ position_to_emit = peeked.at

\* two characters were peeked after a call of next
C18_Witness ==
    /\ peeked.fn = "peek_exactly" /\ peeked.n = 2
    /\ peeked.at = 2
    /\ peeked.ret = Span(2, 3)

\* C19: for n >= 1, peek_at_most(n) returns None iff the iterator is at
\* EOF and otherwise the span of the next min(n, remaining) characters, and
\* does not advance the iterator.
C19_PeekAtMost ==
    (peeked.fn = "peek_at_most" /\ peeked.n >= 1) =>
        /\ peeked.ret = IF peeked.at = 0 THEN None
                        ELSE Span(peeked.at, peeked.at + Min(peeked.n, remaining) - 1)
        /\ peeked.ret.kind = "Span" => Len(as_str(text, peeked.ret)) >= 1
        /\ position_to_emit = peeked.at

\* more characters were asked for than remain
C19_Witness ==
    /\ peeked.fn = "peek_at_most" /\ peeked.n = 3
    /\ peeked.at = 2 /\ Len(text) = 3
    /\ peeked.ret = Span(2, 3)

----------------------------------------------------------------------------
(* Properties of AsciiFile *)

NonAscii == { i \in 1..Len(mapping) : mapping[i] >= 128 }

\* C20: AsciiFile::new(bytes) returns Ok iff every byte is below 0x80, and
\* then the file dereferences to the input; otherwise it returns NotAscii
\* with the byte offset of the first byte that is not ASCII.
C20_AsciiFileNew ==
    ascii_file # NotCreated =>
        IF NonAscii = {}
        THEN /\ ascii_file.kind = "Ok"
             /\ as_bytes(deref(ascii_file)) = mapping
        ELSE /\ ascii_file.kind = "Err"
             /\ ascii_file.position + 1 \in NonAscii
             /\ \A i \in NonAscii : ascii_file.position + 1 <= i

\* the second byte is the first that is not ASCII and is not valid UTF-8
C20_Witness ==
    /\ ascii_file # NotCreated
    /\ Len(mapping) = 3 /\ mapping[1] = 65 /\ mapping[2] = 228 /\ mapping[3] = 128
    /\ ascii_file.kind = "Err" /\ ascii_file.position = 1

----------------------------------------------------------------------------
(* Properties of the command line driver *)

\* the indices of the lexemes that are lexical errors
LexicalErrors == { i \in 1..Len(mapping) : ~lexeme(mapping[i]).ok }

\* the index of the first lexical error, 0 if there is none
first_lexical_error ==
    IF LexicalErrors = {} THEN 0
    ELSE CHOOSE i \in LexicalErrors : \A j \in LexicalErrors : i <= j

\* the lines --lextest prints for the first n lexemes
RECURSIVE token_lines(_)
token_lines(n) ==
    IF n = 0 THEN <<>>
    ELSE token_lines(n - 1)
         \o (IF lexeme(mapping[n]).ok /\ lexeme(mapping[n]).token # "Whitespace"
             THEN <<lexeme(mapping[n]).token>> ELSE <<>>)

\* the positions of the trace at which a lexical or parse error is reported
EarlyErrors == { i \in 1..Len(trace) : trace[i] \in {"lexical error", "parse error"} }

\* C13: in every subcommand that lexes, the first lexical or parse error is
\* the only diagnostic, it is followed by the statistics line and exit code
\* 1; no lexeme after a lexical error is lexed or reaches the parser,
\* semantic analysis does not start after such an error, --lextest prints
\* the tokens before the error and neither a later token nor EOF, and
\* --check exits 0 only when no error was emitted.
C13_FirstErrorAborts ==
    (cmd \in LexCmds /\ ascii_file # NotCreated /\ ascii_file.kind = "Ok") =>
        /\ Cardinality(EarlyErrors) <= 1
        /\ \A i \in EarlyErrors :
               /\ trace = SubSeq(trace, 1, i) \o <<"statistics", "exit">>
               /\ \A j \in 1..(i - 1) : trace[j] # "semantics"
               /\ exit_code = 1
               /\ count(message_count, "Error") = 1
               /\ writer = <<message("Error"), "Compilation aborted due to an error">>
        /\ first_lexical_error # 0 =>
               /\ lexed <= first_lexical_error
               /\ \A k \in 1..Len(parser_tokens) : parser_tokens[k] < first_lexical_error
               /\ \A j \in 1..Len(trace) : trace[j] # "semantics"
               /\ cli_pc = "exited" => exit_code = 1 /\ EarlyErrors # {}
        /\ (cmd = "--lextest" /\ cli_pc = "exited") =>
               stdout = IF first_lexical_error # 0
                        THEN token_lines(first_lexical_error - 1)
                        ELSE Append(token_lines(Len(mapping)), "EOF")
        /\ (cmd = "--lextest" /\ cli_pc # "exited") => stdout = token_lines(lexed)
        /\ (cli_pc = "exited" /\ exit_code = 0) => ~errored(message_count)

\* --lextest has printed a token and stopped at a lexical error that is
\* followed by another token
C13_Witness ==
    /\ cmd = "--lextest" /\ cli_pc = "exited"
    /\ mapping = <<65, 35, 65>>
    /\ stdout = <<"identifier A">>
    /\ trace = <<"lexical error", "statistics", "exit">>
    /\ exit_code = 1

C13_WitnessParser ==
    /\ cmd = "--check" /\ cli_pc = "exited"
    /\ mapping = <<65, 10, 35>>
    /\ parser_tokens = <<1>>
    /\ trace = <<"lexical error", "statistics", "exit">>

\* C14: for a file with a non-ASCII byte --echo copies the file and exits
\* 0, and every other subcommand fails with "cannot decode input file"
\* and exit code 1 before a token is lexed or a diagnostic is emitted.
C14_NonAsciiInput ==
    (cli_pc = "exited" /\ \E i \in 1..Len(mapping) : mapping[i] >= 128) =>
        IF cmd = "--echo"
        THEN exit_code = 0 /\ stdout = <<mapping>>
        ELSE /\ exit_code = 1
             /\ writer = <<"error: cannot decode input file">>
             /\ lexed = 0 /\ message_count = EmptyMap /\ stdout = <<>>

\* C21: in NotAscii{position, prev}, prev is the part of the line of the
\* offending byte that immediately precedes it: it ends at position,
\* contains no line feed, is at most ENCODING_ERROR_MAX_CONTEXT_LEN bytes
\* long, and starts at the start of the line unless cut to that length.
C21_PrevIsLinePrefix ==
    (ascii_file # NotCreated /\ ascii_file.kind = "Err") =>
        LET prev == ascii_file.prev
            start == ascii_file.position - Len(prev)
        IN  /\ start >= 0
            /\ prev = SubSeq(mapping, start + 1, ascii_file.position)
            /\ \A i \in 1..Len(prev) : prev[i] # 10
            /\ Len(prev) <= ENCODING_ERROR_MAX_CONTEXT_LEN
            /\ \/ start = 0
               \/ mapping[start] = 10
               \/ Len(prev) = ENCODING_ERROR_MAX_CONTEXT_LEN

----------------------------------------------------------------------------
(* Properties of PositionedChars *)

\* the number of line feeds among the first k characters of f
newlines_before(f, k) == Cardinality({ i \in 1..k : f[i] = "\n" })

\* the index of the last line feed among the first k characters of f, or 0
last_newline_before(f, k) ==
    LET nl == { i \in 1..k : f[i] = "\n" }
    IN  IF nl = {} THEN 0 ELSE CHOOSE i \in nl : \A j \in nl : j <= i

\* C22: AsciiFile::iter() yields every character of the file exactly once
\* and in order; the k-th item (k from 0) carries byte_offset k, row = the
\* number of line feeds among the first k characters and col = the number
\* of characters since the last line feed before it; a line feed is
\* reported on the line it ends.
C22_IterYields ==
    /\ Len(yielded) <= Len(file)
    /\ \A k \in 0..(Len(yielded) - 1) :
           yielded[k + 1] =
               PositionedChar(Position(newlines_before(file, k),
                                       k - last_newline_before(file, k), k),
                              file[k + 1])
    /\ (pcall.op = "next" /\ pcall.ret = NoChar) => Len(yielded) = Len(file)

\* a whole file with a line feed in its middle has been iterated
C22_Witness ==
    /\ Len(file) = MaxChars /\ file[2] = "\n" /\ file[3] # "\n"
    /\ pcall.op = "next" /\ pcall.ret = NoChar
    /\ Len(yielded) = Len(file)

RECURSIVE no_peek_run(_)
\* the items of an iterator that is only ever asked for the next item
no_peek_run(it) ==
    LET r == PositionedChars_next(it)
    IN  IF r.ret = NoChar THEN <<>> ELSE <<r.ret.some>> \o no_peek_run(r.it)

\* C23: whatever peek, peek_multiple, try_peek_multiple, eof_reached and
\* current_position calls are interleaved with next, next returns the
\* items it returns with no peeking at all; peek returns the character of
\* the following next, peek_multiple(n) the next min(n, remaining)
\* characters, try_peek_multiple(n) None iff fewer than n remain.
C23_PeekingIsTransparent ==
    LET expected == no_peek_run(AsciiFile_iter(file))
        rem == SubSeq(file, Len(yielded) + 1, Len(file))
        following == IF Len(yielded) < Len(expected)
                     THEN Some(expected[Len(yielded) + 1]) ELSE NoChar
    IN  /\ Len(yielded) <= Len(expected)
        /\ yielded = SubSeq(expected, 1, Len(yielded))
        /\ PositionedChars_next(chars).ret = following
        /\ (pcall.op = "next" /\ pcall.ret = NoChar) => Len(yielded) = Len(expected)
        /\ pcall.op = "peek" =>
               pcall.ret = IF following = NoChar THEN NoChar ELSE Some(following.some.chr)
        /\ pcall.op = "peek_multiple" =>
               pcall.ret = SubSeq(rem, 1, Min(pcall.n, Len(rem)))
        /\ pcall.op = "try_peek_multiple" =>
               /\ pcall.ret = NoChar <=> Len(rem) < pcall.n
               /\ pcall.ret # NoChar => pcall.ret = Some(SubSeq(rem, 1, pcall.n))
        /\ pcall.op = "eof_reached" => pcall.ret = (rem = <<>>)
        /\ (pcall.op = "current_position" /\ following # NoChar) =>
               pcall.ret = following.some.pos

\* next has returned the second item while a peeked character is buffered
C23_Witness ==
    /\ pcall.op = "next" /\ pcall.ret # NoChar
    /\ Len(yielded) = 2 /\ chars.peeked # <<>>

----------------------------------------------------------------------------
(* Properties of the lextest writer *)

RECURSIVE lines(_)
\* str::lines: the pieces between the line feeds; a last piece that is
\* empty is no line
lines(o) ==
    IF o = <<>> THEN <<>>
    ELSE LET nl == { i \in 1..Len(o) : o[i] = "\n" }
         IN  IF nl = {} THEN <<o>>
             ELSE LET i == CHOOSE j \in nl : \A k \in nl : j <= k
                  IN  <<SubSeq(o, 1, i - 1)>> \o lines(SubSeq(o, i + 1, Len(o)))

is_trivia(token) == token.kind \in {"Whitespace", "Comment"}

\* C24: the lextest writer writes nothing for Whitespace and Comment tokens
\* and one line, ended by a line feed, for every other token, in input
\* order: "identifier <name>", "integer literal <digits>", the spelling of
\* a keyword or operator; the lines are as many as the tokens that are not
\* trivia, plus the line "EOF" written last.
C24_LextestLines ==
    LET not_trivia(token) == ~is_trivia(token)
        shown == SelectSeq(SubSeq(tokens, 1, written), not_trivia)
        ls == lines(out)
    IN  /\ out # <<>> => out[Len(out)] = "\n"
        /\ Cardinality({ i \in 1..Len(out) : out[i] = "\n" }) = Len(ls)
        /\ Len(ls) = Len(shown) + (IF eof_written THEN 1 ELSE 0)
        /\ \A k \in 1..Len(shown) :
               /\ shown[k].kind = "Identifier" =>
                      ls[k] = <<"i", "d", "e", "n", "t", "i", "f", "i", "e", "r", " ">>
                              \o shown[k].data
               /\ shown[k].kind = "IntegerLiteral" =>
                      ls[k] = <<"i", "n", "t", "e", "g", "e", "r", " ",
                                "l", "i", "t", "e", "r", "a", "l", " ">> \o shown[k].data
               /\ shown[k].kind \in {"Keyword", "Operator"} => ls[k] = shown[k].data
        /\ eof_written => ls[Len(ls)] = <<"E", "O", "F">>

\* a comment, an identifier and a keyword were written, then EOF
C24_Witness ==
    /\ Len(tokens) = MaxTokens /\ eof_written
    /\ tokens[1].kind = "Comment" /\ tokens[2].kind = "Identifier"
    /\ tokens[3].kind = "Keyword"
    /\ Len(lines(out)) = MaxTokens

----------------------------------------------------------------------------
(* Properties of the copy placement *)

\* how often the transition k of edge e stands in the list l
placed(l, e, k) == Cardinality({ i \in 1..Len(l) : l[i] = [e |-> e, idx |-> k] })

\* C25: after GenInstrBlock::gen has run for all blocks, every register
\* transition of every edge is placed exactly once: in copy_in of the
\* target block of the edge iff must_copy_in_source is false for it, in
\* copy_out of the source block of the edge iff it is true; never in both
\* lists, in neither, or twice in one.
C25_CopiesPlacedOnce ==
    (pc = "done" /\ panic = "") =>
        \A e \in Edges(g) : \A k \in FlowIdx(e) :
            LET in_source == must_copy_in_source(g, trans, e, k)
            IN  /\ placed(copy_in[e.tgt], e, k) = IF in_source THEN 0 ELSE 1
                /\ placed(copy_out[e.src], e, k) = IF in_source THEN 1 ELSE 0
                /\ \A b \in Blocks(g) :
                       /\ b # e.tgt => placed(copy_in[b], e, k) = 0
                       /\ b # e.src => placed(copy_out[b], e, k) = 0

\* gen has run for all blocks of a graph with a transition copied in the
\* source block and one copied in the target block
C25_Witness ==
    /\ pc = "done" /\ panic = ""
    /\ \E e \in Edges(g) : \E k \in FlowIdx(e) :
           /\ must_copy_in_source(g, trans, e, k)
           /\ placed(copy_out[e.src], e, k) = 1
    /\ \E e \in Edges(g) : \E k \in FlowIdx(e) :
           /\ ~must_copy_in_source(g, trans, e, k)
           /\ placed(copy_in[e.tgt], e, k) = 1

----------------------------------------------------------------------------
(* Properties of BlockGraph::iter_blocks *)

RECURSIVE reach(_, _)
\* the blocks reachable from the set bs over successor edges
reach(succ, bs) ==
    LET nxt == bs \cup UNION { { succ[b][i].tgt : i \in 1..Len(succ[b]) } : b \in bs }
    IN  IF nxt = bs THEN bs ELSE reach(succ, nxt)

\* how often block b was yielded
times_yielded(b) == Cardinality({ i \in 1..Len(bb_yielded) : bb_yielded[i] = b })

\* C28: iter_blocks yields every block reachable from head over successor
\* edges exactly once, head first, also when some edge leads back to head.
C28_EachBlockOnce ==
    /\ bb_yielded # <<>> => bb_yielded[1] = head
    /\ \A b \in DOMAIN block_succs : times_yielded(b) <= 1
    /\ bb_exhausted =>
           \A b \in DOMAIN block_succs :
               times_yielded(b) = IF b \in reach(block_succs, {head}) THEN 1 ELSE 0

----------------------------------------------------------------------------
(* Properties of the stack pointer over a call *)

\* the number of instructions of kind op in the sequence is
count_op(is, op) == Cardinality({ i \in 1..Len(is) : is[i].op = op })

\* the bytes the recover instruction adds to Rsp
recover_amount(c) == IF c.recover = NoInstr THEN 0 ELSE c.recover.src

\* C29: for both calling conventions and every argument count, the
\* sequence arg_save, setup, call, recover, move_res, arg_recover leaves
\* the stack pointer where it was: the pushes of arg_save and setup are as
\* many as the pops of arg_recover plus the recover amount divided by 8.
C29_StackPointerBalanced ==
    CallBuilt =>
        /\ recover_amount(call) % 8 = 0
        /\ call.recover # NoInstr => call.recover.op = "Addq" /\ call.recover.dst = Reg("Rsp")
        /\ count_op(call.arg_save, "Pushq") + count_op(call.setup, "Pushq")
               = count_op(call.arg_recover, "Popq") + recover_amount(call) \div 8
        /\ count_op(call.arg_save, "Popq") + count_op(call.setup, "Popq") = 0
        /\ count_op(call.arg_recover, "Pushq") = 0
        /\ call.move_res # NoInstr => call.move_res.op = "Movq"

\* a call with stack arguments was set up under the X86_64 convention
C29_Witness ==
    /\ CallBuilt /\ cconv = "X86_64" /\ Len(args) = 8
    /\ count_op(call.setup, "Pushq") = 2 /\ recover_amount(call) = 16

\* a call with arguments was set up under the Stack convention
C29_WitnessStack ==
    /\ CallBuilt /\ cconv = "Stack" /\ Len(args) = 3
    /\ count_op(call.setup, "Pushq") = 3 /\ recover_amount(call) = 24

----------------------------------------------------------------------------
(* Properties of the unreachable code elimination *)

\* the Conds of G whose selector is a constant
const_conds(G) == { i \in 1..Len(G.conds) : G.conds[i].selector \in {"True", "False"} }

\* the block the Cond i of G always, and never, jumps to
taken_block(G, i) == IF G.conds[i].selector = "True" THEN G.conds[i].t ELSE G.conds[i].f

never_taken_block(G, i) == IF G.conds[i].selector = "True" THEN G.conds[i].f ELSE G.conds[i].t

C26_WitnessDangling ==
    /\ uce_pc = "ran"
    /\ \E i \in const_conds(graph_before) :
           never_taken_block(graph_before, i) \in graph.bad_blocks

\* the program result after an unchanged and a changed method
C26_WitnessProgram ==
    /\ uce_pc = "done" /\ results = <<"Unchanged", "Changed">>
    /\ program_result = "Changed"

----------------------------------------------------------------------------
(* Properties of build_lsa *)

\* the instructions of the blocks in postorder, one after the other
RECURSIVE flatten(_)
flatten(blocks) ==
    IF blocks = <<>> THEN <<>> ELSE Head(blocks).instrs \o flatten(Tail(blocks))

\* the indices, from 0, of the instructions that mention the variable v
mentions(v) ==
    LET flat == flatten(postorder_blocks)
    IN  { k \in 0..(Len(flat) - 1) : v \in Range(mentioned(flat[k + 1])) }

\* the number of instructions before the block at position b
instrs_before(b) == Len(flatten(SubSeq(postorder_blocks, 1, b - 1)))

\* the position in postorder_blocks of the block that holds instruction k
position_of(k) ==
    CHOOSE b \in 1..Len(postorder_blocks) :
        instrs_before(b) <= k /\ k < instrs_before(b) + Len(postorder_blocks[b].instrs)

\* the position in postorder_blocks of the block numbered n
position_of_num(n) == CHOOSE b \in 1..Len(postorder_blocks) : postorder_blocks[b].num = n

Minimum(S) == CHOOSE n \in S : \A m \in S : n <= m

\* C27: build_lsa numbers the instructions from 0 over the blocks in
\* postorder and records per block the index of its last instruction; the
\* interval of a variable starts at its first mention and ends at its last
\* mention, or, if the variable is live in a block other than that of the
\* last mention, at the last instruction of the highest-numbered block
\* where it is live; every interval has start <= end, and all this is well
\* defined for every block list, also when the first block is empty.
C27_LiveIntervals ==
    lsa # NotBuilt =>
        /\ lsa.panic = ""
        /\ Len(lsa.block_last_instr) = Len(postorder_blocks)
        /\ \A b \in 1..Len(postorder_blocks) :
               postorder_blocks[b].instrs # <<>> =>
                   lsa.block_last_instr[b]
                       = instrs_before(b) + Len(postorder_blocks[b].instrs) - 1
        /\ DOMAIN lsa.var_live = { v \in VarIds : mentions(v) # {} }
        /\ \A v \in DOMAIN lsa.var_live :
               LET last_mention == max_num(mentions(v))
                   last_block == postorder_blocks[position_of(last_mention)].num
                   elsewhere == liveness[v] \ {last_block}
                   b == position_of_num(max_num(liveness[v]))
               IN  /\ lsa.var_live[v].start = Minimum(mentions(v))
                   /\ lsa.var_live[v].end =
                          IF elsewhere = {} THEN last_mention
                          ELSE instrs_before(b) + Len(postorder_blocks[b].instrs) - 1
                   /\ lsa.var_live[v].start <= lsa.var_live[v].end

----------------------------------------------------------------------------
(* Properties of the arithmetic instructions *)

\* the operands an instruction reads
reads(instr) ==
    IF instr.op = "Unop" THEN {instr.operand} ELSE {instr.src1, instr.src2}

\* the slot an instruction writes
writes(instr) == IF instr.op = "Unop" THEN instr.operand.slot ELSE instr.dst

\* the value of an input of the node before the body runs
input_value(n) ==
    IF "const" \in DOMAIN n THEN n.const
    ELSE IF "param" \in DOMAIN n THEN param_values[n.param]
    ELSE IF n.node = "a" THEN slot_values[0] ELSE slot_values[1]

\* C30: the arithmetic instruction emitted for a Firm node reads every
\* value input of the node: a Binop, Div or Mod the operands of the left
\* and right input, the Unop of a Not or Minus the operand of its single
\* input, and it writes the destination slot of the node, whose value then
\* depends on the inputs.
C30_InstructionReadsInputs ==
    /\ gen_pc \in {"generated", "executed"} =>
           LET instr == code_body[Len(code_body)]
           IN  /\ \A i \in 1..Len(gen_node.ins) :
                      gen_operand_jit(computed, gen_node.ins[i]) \in reads(instr)
               /\ writes(instr) = computed["node"]
    /\ gen_pc = "executed" =>
           /\ computed["node"] \in DOMAIN slot_values
           /\ slot_values[computed["node"]].args
                  = [i \in 1..Len(gen_node.ins) |-> input_value(gen_node.ins[i])]

====
